---- MODULE Spec2Model ----
(***************************************************************************)
(* DockPulse: the dashboard's shared state (unit list, focused index, list *)
(* widget), the bulk-mode selection set, the sequential bulk executor, the *)
(* two periodic workers and the rolling metrics history buffers.          *)
(*                                                                         *)
(* Indices are 0-based as in the Go source; a TLA+ sequence is indexed at  *)
(* index + 1.  The display loop (tview's event loop) runs key handlers and *)
(* queued updates one at a time; worker goroutines interleave with it at   *)
(* the boundaries of the critical sections of the source.                  *)
(***************************************************************************)
EXTENDS Integers, Sequences, FiniteSets, TLC

\* ---------------------------------------------------------------- bounds
DashUnits == 5        \* longest unit list the runtime reports (dashboard)
BulkUnits == 2        \* longest unit list the runtime reports (bulk mode)
QueueCap == 1         \* timer-driven updates pending in the display queue
MaxSamples == 2       \* stats samples fetched by the stats worker
HistAppends == 33     \* samples appended to the dashboard history
ViewAppends == 63     \* samples appended to the stats viewer history
NumSeeds == 2         \* sample streams tried
MaxSelOps == 5        \* selection-set calls recorded in selLog
MaxActs == 1          \* single-unit actions whose runtime call is in flight
MaxData == 3          \* longest buffer handed to the graph renderers
MaxWidth == 4         \* largest width handed to the graph renderers
MaxCmds == 3          \* most commands the shell's history holds
MaxBar == 50          \* widest percentage bar drawn
MaxValue == 101       \* largest whole percentage handed to DrawGraph

\* ------------------------------------------------------ program constants
HistoryCap == 30
ViewerCap == 60

VARIABLES
  containers,     \* Dashboard.containers: sequence of unit ids
  selectedIndex,  \* Dashboard.selectedIndex
  currentItem,    \* the list widget's current item (d.list.GetCurrentItem)
  itemCount,      \* the list widget's number of rows
  statsText,      \* contents of the Live Stats panel
  uiPc,           \* display loop: "idle", "rebuild" (inside updateList), "stopped"
  root,           \* the view that has the screen and the keyboard
  updates,        \* functions queued with QueueUpdateDraw, oldest first
  idxFault,       \* an index outside the unit list was used (Go would panic)
  enabled,        \* BulkOperationMode.enabled
  selectedIDs,    \* BulkOperationMode.selectedIDs (the keys of the map)
  menuIDs,        \* selectedIDs captured by ShowBulkActionsMenu
  menuNames,      \* number of selectedNames captured by ShowBulkActionsMenu
  action,         \* action of the confirmation / bulk run
  bulkAction,     \* performBulkAction's action
  bulkPc,         \* bulk goroutine: "idle", "issue", "wait", "final", "done",
                  \* and "gone" once its result has been dismissed
  containerIDs,   \* performBulkAction's containerIDs
  bulkI,          \* loop index i of the bulk goroutine
  total, success, failed,
  inFlight,       \* lifecycle runtime calls of the batch that have not returned
  calls,          \* runtime calls issued by the batch: [id, act, ok]
  progressLog,    \* progress values emitted by the batch, in order
  progressText,   \* what the progress view shows
  statsPc,        \* stats worker: "wait", "fetch", "exit"
  statsUnit,      \* unit read by updateStats before GetStats
  refreshPc,      \* refresh worker: "wait", "exit"
  cancelled,      \* cleanup() has cancelled both contexts
  statsSkipped,   \* why the last stats tick returned early: "no", "empty", "stale"
  cpuHistory, memHistory,   \* StatsHistory buffers
  svCpu, svMem,             \* StatsViewer buffers
  appended,       \* number of samples appended to StatsHistory so far
  svAppended,     \* number of samples appended to StatsViewer so far
  seed,           \* which sample stream the runtime produces
  listErr,        \* the latest updateList returned an error
  selLog,         \* calls made on the selection set by the key handlers,
                  \* oldest first, each with the state it found (kept only
                  \* when selLog.on)
  uiCalled,       \* the display loop has executed a runtime call itself
  locks,          \* the locks held between two steps: "mu" (Dashboard.mu),
                  \* "bulk" (BulkOperationMode.mu), "hist" (StatsHistory.mu)
  ticks,          \* the one-refresh-one-stats scenario: the planned runtime
                  \* results and the ticks taken (counted only when ticks.on)
  histUnits,      \* for each sample of cpuHistory, the unit it was fetched for
                  \* (kept only when histUnits.on)
  acts,           \* single-unit action goroutines whose runtime call is in flight
  svAcc,          \* showEnhancedStats: sampleCount, avgCPU, avgMem, maxCPU, maxMem
  svCtl,          \* showEnhancedStats: the sampler's and the r handler's
                  \* positions, and paused
  renderIn,       \* the buffer and width handed to the graph renderers
  renderOut,      \* what the renderers returned
  answered,       \* the latest answer given in the delete confirmation and in
                  \* the bulk confirmation (kept only when answered.on)
  loop,           \* the display loop: whether QueueUpdateDraw waits for the
                  \* update to run, and whether a key handler is waiting in it
  history         \* the shell's CommandHistory: commands, index, and the
                  \* latest call with what it returned

vars == <<containers, selectedIndex, currentItem, itemCount, statsText, uiPc,
          root, updates, idxFault, enabled, selectedIDs, menuIDs, menuNames,
          action, bulkAction, bulkPc, containerIDs, bulkI, total, success,
          failed, inFlight, calls, progressLog, progressText, statsPc, statsUnit,
          refreshPc, cancelled, statsSkipped, cpuHistory, memHistory, svCpu, svMem,
          appended, svAppended, seed, listErr, selLog, uiCalled, locks, ticks,
          histUnits, acts, svAcc, svCtl, renderIn, renderOut, answered, loop,
          history>>

dashVars == <<containers, selectedIndex, currentItem, itemCount, statsText, uiPc>>
selVars == <<enabled, selectedIDs>>
menuVars == <<menuIDs, menuNames, action>>
bulkVars == <<bulkAction, bulkPc, containerIDs, bulkI, total, success, failed, inFlight,
              calls, progressLog>>
workerVars == <<statsPc, statsUnit, refreshPc, cancelled, statsSkipped>>
histVars == <<cpuHistory, memHistory, appended>>
viewerVars == <<svCpu, svMem, svAppended>>
statsViewVars == <<svAcc, svCtl>>
renderVars == <<renderIn, renderOut>>

NoUnit == 0
Actions == {"start", "stop", "restart", "delete"}

\* ------------------------------------------------------------ the runtime
\* ListContainers: the runtime reports its units in its own order, or fails.
UnitLists(n) == {[i \in 1..k |-> i] : k \in 0..n}
Listings(n) == {[ok |-> TRUE, list |-> l] : l \in UnitLists(n)}
                 \cup {[ok |-> FALSE, list |-> <<>>]}

\* GetStats: the n-th sample of the stream the runtime produces (percentages).
CpuSample(s, n) == (n * (36 + s)) % 101
MemSample(s, n) == (n * (52 + s) + 11) % 101

\* ------------------------------------------------------- metrics history
\* StatsHistory.AddCPU / AddMem: append, then drop the oldest beyond 30.
AddSampleDropNewest(buf, value, cap) ==
  IF Len(buf) >= cap THEN buf ELSE Append(buf, value)
AddSample(buf, value, cap) ==
  LET b == Append(buf, value)
  IN  IF Len(b) > cap THEN Tail(b) ELSE b

\* The unit each sample of the history was fetched for, kept like the samples
\* (only when histUnits.on).
Tagged(unit) ==
  IF histUnits.on
    THEN [histUnits EXCEPT !.units = AddSample(@, unit, HistoryCap)]
    ELSE histUnits

AddCPU(value) == AddSample(cpuHistory, value, HistoryCap)
AddMem(value) == AddSample(memHistory, value, HistoryCap)
\* StatsViewer.AddCPU / AddMem: the same with maxDataPoints = 60.
SvAddCPU(value) == AddSample(svCpu, value, ViewerCap)
SvAddMem(value) == AddSample(svMem, value, ViewerCap)

\* ------------------------------------------------------------ selection
\* BulkOperationMode.Toggle: flip enabled, forget the ids when leaving.
ToggleClearsOnEnter(e, ids) ==
  [enabled |-> ~e, selectedIDs |-> IF ~e THEN {} ELSE ids]
Toggle(e, ids) ==
  [enabled |-> ~e, selectedIDs |-> IF ~(~e) THEN {} ELSE ids]
\* BulkOperationMode.ToggleContainer
ToggleContainerAddOnly(ids, id) == ids \cup {id}
ToggleContainer(ids, id) == IF id \in ids THEN ids \ {id} ELSE ids \cup {id}
\* BulkOperationMode.GetSelected: the map's keys in iteration order (any order).
GetSelected(ids) ==
  {f \in [1..Cardinality(ids) -> ids] : \A i, j \in DOMAIN f : i # j => f[i] # f[j]}
\* BulkOperationMode.Clear
Clear(ids) == {}
\* BulkOperationMode.Count: len(selectedIDs)
Count(ids) == Cardinality(ids)

\* The record of the calls on the selection set: the call, its argument and
\* the enabled flag and ids it found.  "SpaceOff" is a SPACE key that made no
\* call because bulk mode was off.
SelOps == {"Toggle", "ToggleContainer", "SpaceOff"}
LogRoom == ~selLog.on \/ Len(selLog.ops) < MaxSelOps
Logged(op, id) ==
  selLog' = IF selLog.on
              THEN [selLog EXCEPT !.ops = Append(@,
                      [op |-> op, id |-> id, en |-> enabled, ids |-> selectedIDs])]
              ELSE selLog

\* ------------------------------------------------------------------ locks
\* sync.RWMutex as far as the steps of the model need it: a lock is in `locks`
\* while a goroutine holds it.  Section is a critical section that begins and
\* ends inside one step.
\* Lock and RLock: Nested is left behind by an acquisition that was made
\* while a lock was held.
Nested == "nested"
Lock(l, m) == IF l \ {Nested} = {} THEN l \cup {m} ELSE l \cup {m, Nested}
Unlock(l, m) == l \ {m}
Section(l, m) == Unlock(Lock(l, m), m)
Free(m) == m \notin locks
\* Critical sections one after the other.
RECURSIVE Sections(_, _)
Sections(l, ms) ==
  IF ms = <<>> THEN l ELSE Sections(Section(l, Head(ms)), Tail(ms))

\* ------------------------------------------------------------- dashboard
InRange(index) == index >= 0 /\ index < Len(containers)
UnitAt(index) == IF InRange(index) THEN containers[index + 1] ELSE NoUnit

\* d.list.SetChangedFunc: SetFocus(index), a no-op outside the bounds.
FocusInBoundsNoCheck(index) == TRUE
FocusInBounds(index) == index >= 0 /\ index < Len(containers)
SetFocus(index, old) == IF FocusInBounds(index) THEN index ELSE old

\* setupKeyHandlers, lines 267-274: the handler gives up on an empty list or
\* when the widget's current item is not a unit.
KeyGuard == Len(containers) # 0 /\ currentItem >= 0 /\ currentItem < Len(containers)

\* updateStats, line 402: the stats worker gives up without a focused unit.
StatsGuardNoCheck == TRUE
StatsGuard ==
  ~(Len(containers) = 0 \/ selectedIndex < 0 \/ selectedIndex >= Len(containers))

\* The scenario of one refresh tick and one stats tick: with ticks.on each
\* worker ticks at most TicksEach times, and the runtime answers ListContainers
\* with ticks.res and GetStats with ticks.ok.
TicksEach == 1
NoTicks == [on |-> FALSE, refresh |-> 0, stats |-> 0,
            res |-> [ok |-> FALSE, list |-> <<>>], ok |-> FALSE, first |-> <<>>]
TickRoom(w) == ~ticks.on \/ ticks[w] < TicksEach
Ticked(w) == ticks' = IF ticks.on THEN [ticks EXCEPT ![w] = @ + 1] ELSE ticks

QueueUpdateDraw(u) == updates' = Append(updates, u)
\* The display loop takes its next event (a key or a queued update) when it
\* is not inside updateList and no handler of its own is still waiting inside
\* QueueUpdateDraw.
LoopIdle == uiPc = "idle" /\ ~loop.blocked
\* QueueUpdateDraw called by a key handler, that is on the display loop's own
\* goroutine: where the library makes the caller wait until the update has
\* run (loop.waits), the handler waits for the loop it is keeping busy.
QueuedFromLoop(queued) ==
  loop' = IF queued /\ loop.waits THEN [loop EXCEPT !.blocked = TRUE] ELSE loop
\* The answer given in a confirmation dialog (kept only when answered.on).
Answered(dialog, answer) ==
  answered' = IF answered.on THEN [answered EXCEPT ![dialog] = answer]
              ELSE answered
\* The model lets timers and keys queue an update only while fewer than
\* QueueCap are pending (the bulk goroutine is never held back).
QueueRoom == Len(updates) < QueueCap
Update(kind, i, s, f, t) == [kind |-> kind, i |-> i, s |-> s, f |-> f, t |-> t]

\* updateList up to the unlock at line 468: fetch the list and swap it in.
\* A failed ListContainers returns before anything is touched.
UpdateListSwapOnError(res) ==
  /\ uiCalled' = TRUE
  /\ listErr' = ~res.ok
  /\ Free("mu") /\ locks' = Section(locks, "mu")
  /\ containers' = res.list /\ uiPc' = "rebuild"
UpdateListSwap(res) ==
  /\ uiCalled' = TRUE
  /\ listErr' = ~res.ok
  /\ IF res.ok
       THEN /\ Free("mu") /\ locks' = Section(locks, "mu")
            /\ containers' = res.list /\ uiPc' = "rebuild"
       ELSE UNCHANGED <<containers, locks>> /\ uiPc' = uiPc

\* updateList from line 470 and updateSystemInfo take their locks one after
\* the other: the rows ask the selection (IsEnabled, IsSelected), the changed
\* callback and updateSystemInfo take d.mu and give it back, and the system
\* line asks the selection again (IsEnabled, Count).
RebuildLocksNested(l) == Unlock(Sections(Lock(l, "mu"), <<"bulk", "bulk">>), "mu")
RebuildLocks(l) == Sections(l, <<"bulk", "bulk", "mu", "mu", "bulk", "bulk">>)

\* updateList from line 470: the list widget is cleared (current item 0) and
\* refilled; the widget reports the first row added through the changed
\* callback, which is SetFocus(0).  An empty list gets a placeholder row and
\* blank stats.
ListRebuild ==
  /\ uiPc = "rebuild"
  /\ Free("mu") /\ Free("bulk")
  /\ locks' = RebuildLocks(locks)
  /\ currentItem' = 0
  /\ itemCount' = IF Len(containers) = 0 THEN 1 ELSE Len(containers)
  /\ selectedIndex' = SetFocus(0, selectedIndex)
  /\ statsText' = IF Len(containers) = 0 THEN "" ELSE statsText
  /\ uiPc' = "idle"
  /\ UNCHANGED <<containers, root, updates, idxFault, selVars, menuVars,
                 bulkVars, progressText, workerVars, histVars, viewerVars,
                 seed, answered, loop, history, uiCalled, ticks, histUnits,
                 acts, statsViewVars, renderVars, listErr, selLog>>

\* The key handler's preamble, lines 276-279: focus follows the widget and
\* the focused unit is read from the list.
KeyReady == LoopIdle /\ root = "main"
KeyPreamble ==
  /\ KeyReady
  /\ Free("mu")
  /\ KeyGuard
  /\ idxFault' = (idxFault \/ ~InRange(currentItem))

\* F5: updateList.
KeyF5(res) ==
  /\ KeyPreamble
  /\ selectedIndex' = currentItem
  /\ UpdateListSwap(res)
  /\ UNCHANGED <<currentItem, itemCount, statsText, root, updates, selVars,
                 menuVars, bulkVars, progressText, workerVars, histVars,
                 viewerVars,
                 seed, answered, loop, history,
                 ticks, histUnits, acts, statsViewVars, renderVars, selLog>>

\* A navigation key: not handled by the capture, so the list widget moves
\* its current item and reports it through the changed callback.
KeyNav(index) ==
  /\ KeyPreamble
  /\ index \in 0..(itemCount - 1)
  /\ index # currentItem
  /\ currentItem' = index
  /\ selectedIndex' = SetFocus(index, currentItem)
  /\ UNCHANGED <<containers, itemCount, statsText, uiPc, root, updates, selVars,
                 menuVars, bulkVars, progressText, workerVars, histVars,
                 viewerVars,
                 seed, answered, loop, history, uiCalled, locks, ticks, histUnits,
                 acts, statsViewVars, renderVars, listErr, selLog>>

\* q: cleanup() cancels both worker contexts and the display loop stops.
KeyQuit ==
  /\ KeyReady
  /\ cancelled' = TRUE
  /\ uiPc' = "stopped"
  /\ UNCHANGED <<containers, selectedIndex, currentItem, itemCount, statsText,
                 root, updates, idxFault, selVars, menuVars, bulkVars,
                 progressText, statsPc, statsUnit, refreshPc, statsSkipped,
                 histVars, viewerVars,
                 seed, answered, loop, history, uiCalled, locks, ticks, histUnits,
                 acts, statsViewVars, renderVars, listErr, selLog>>

\* ----------------------------------------------------------- the workers
\* startRefreshWorker: each tick queues updateList for the display loop.
RefreshTick ==
  /\ refreshPc = "wait"
  /\ QueueRoom
  /\ TickRoom("refresh") /\ Ticked("refresh")
  /\ QueueUpdateDraw(Update("refresh", 0, 0, 0, 0))
  /\ UNCHANGED <<dashVars, root, idxFault, selVars, menuVars, bulkVars,
                 progressText, workerVars, histVars, viewerVars,
                 seed, answered, loop, history, uiCalled, locks, histUnits,
                 acts, statsViewVars, renderVars, listErr, selLog>>

RefreshExit ==
  /\ refreshPc = "wait"
  /\ cancelled
  /\ refreshPc' = "exit"
  /\ UNCHANGED <<dashVars, root, updates, idxFault, selVars, menuVars, bulkVars,
                 progressText, statsPc, statsUnit, cancelled, statsSkipped,
                 histVars, viewerVars,
                 seed, answered, loop, history, uiCalled, locks, ticks, histUnits,
                 acts, statsViewVars, renderVars, listErr, selLog>>

\* The display loop runs the queued updateList.
DrawRefresh(res) ==
  /\ LoopIdle
  /\ updates # <<>>
  /\ Head(updates).kind = "refresh"
  /\ updates' = Tail(updates)
  /\ UpdateListSwap(res)
  /\ UNCHANGED <<selectedIndex, currentItem, itemCount, statsText, root,
                 idxFault, selVars, menuVars, bulkVars, progressText,
                 workerVars, histVars, viewerVars,
                 seed, answered, loop, history,
                 ticks, histUnits, acts, statsViewVars, renderVars, selLog>>

\* updateStats, line 407 (and 403 on the early return): the read lock is
\* released before GetStats is called at line 409.
StatsRUnlockDeferred(l) == l
StatsRUnlock(l) == Unlock(l, "mu")

\* updateStats, lines 401-407: read the focused unit under the read lock.
StatsTick ==
  /\ statsPc = "wait"
  /\ appended < MaxSamples
  /\ QueueRoom
  /\ TickRoom("stats") /\ Ticked("stats")
  /\ Free("mu") /\ locks' = StatsRUnlock(Lock(locks, "mu"))
  /\ IF StatsGuard
       THEN /\ statsUnit' = UnitAt(selectedIndex)
            /\ idxFault' = (idxFault \/ ~InRange(selectedIndex))
            /\ statsPc' = "fetch"
            /\ statsSkipped' = "no"
       ELSE /\ UNCHANGED <<statsUnit, idxFault, statsPc>>
            /\ statsSkipped' = IF Len(containers) = 0 THEN "empty" ELSE "stale"
  /\ UNCHANGED <<dashVars, root, updates, selVars, menuVars, bulkVars,
                 progressText, refreshPc, cancelled, histVars, viewerVars,
                 seed, answered, loop, history, uiCalled, histUnits,
                 acts, statsViewVars, renderVars, listErr, selLog>>

\* updateStats, lines 409-457: GetStats returns; an error queues the
\* "Stats unavailable" text, a sample is appended to both buffers and the
\* panel update is queued.
\* Lines 410-415: on an error updateStats returns before the appends.
AfterGetStatsNoReturn(ok, old, new) == new
AfterGetStats(ok, old, new) == IF ok THEN new ELSE old

StatsReturn(ok) ==
  /\ statsPc = "fetch"
  /\ statsPc' = "wait"
  /\ cpuHistory' = AfterGetStats(ok, cpuHistory, AddCPU(CpuSample(seed, appended + 1)))
  /\ memHistory' = AfterGetStats(ok, memHistory, AddMem(MemSample(seed, appended + 1)))
  /\ appended' = IF ok THEN appended + 1 ELSE appended
  /\ histUnits' = AfterGetStats(ok, histUnits, Tagged(statsUnit))
  /\ ok => Free("hist")
  /\ locks' = AfterGetStats(ok, locks, Section(locks, "hist"))
  /\ IF ok
       THEN QueueUpdateDraw(Update("stats", statsUnit, 0, 0, 0))
       ELSE QueueUpdateDraw(Update("statsErr", 0, 0, 0, 0))
  /\ UNCHANGED <<dashVars, root, idxFault, selVars, menuVars, bulkVars,
                 progressText, statsUnit, refreshPc, cancelled, statsSkipped,
                 viewerVars,
                 seed, answered, loop, history,
                 uiCalled, ticks, acts, statsViewVars, renderVars, listErr, selLog>>

StatsExit ==
  /\ statsPc = "wait"
  /\ cancelled
  /\ statsPc' = "exit"
  /\ UNCHANGED <<dashVars, root, updates, idxFault, selVars, menuVars, bulkVars,
                 progressText, statsUnit, refreshPc, cancelled, statsSkipped,
                 histVars, viewerVars,
                 seed, answered, loop, history, uiCalled, locks, ticks, histUnits,
                 acts, statsViewVars, renderVars, listErr, selLog>>

\* The display loop runs the queued panel update of updateStats.
DrawStats ==
  /\ LoopIdle
  /\ updates # <<>>
  /\ Head(updates).kind \in {"stats", "statsErr"}
  /\ Free("bulk") /\ Free("hist")
  /\ locks' = IF Head(updates).kind = "statsErr" THEN locks
              ELSE IF enabled THEN Section(locks, "bulk")
              ELSE Sections(locks, <<"bulk", "hist", "hist">>)
  /\ updates' = Tail(updates)
  /\ statsText' = IF Head(updates).kind = "statsErr" THEN "unavailable"
                  ELSE IF ~enabled THEN "stats" ELSE statsText
  /\ UNCHANGED <<containers, selectedIndex, currentItem, itemCount, uiPc, root,
                 idxFault, selVars, menuVars, bulkVars, progressText,
                 workerVars, histVars, viewerVars,
                 seed, answered, loop, history, uiCalled, ticks, histUnits,
                 acts, statsViewVars, renderVars, listErr, selLog>>

\* ------------------------------------------------------------- bulk mode
\* b: Toggle, updateList, and the bulk-mode banner when the mode is now on.
KeyB(res) ==
  /\ KeyPreamble
  /\ QueueRoom
  /\ LogRoom
  /\ selectedIndex' = currentItem
  /\ Logged("Toggle", NoUnit)
  /\ QueuedFromLoop(Toggle(enabled, selectedIDs).enabled)
  /\ LET t == Toggle(enabled, selectedIDs)
     IN  /\ enabled' = t.enabled
         /\ selectedIDs' = t.selectedIDs
         /\ IF t.enabled
              THEN QueueUpdateDraw(Update("bulkInfo", 0, 0, 0, 0))
              ELSE UNCHANGED updates
  /\ UpdateListSwap(res)
  /\ UNCHANGED <<currentItem, itemCount, statsText, root, menuVars, bulkVars,
                 progressText, workerVars, histVars, viewerVars,
                 seed, answered, history,
                 ticks, histUnits, acts, statsViewVars, renderVars>>

\* SPACE: in bulk mode, ToggleContainer(focused unit), updateList, banner.
\* Line 328: SPACE does nothing outside bulk mode.
SpaceGuardNoCheck == TRUE
SpaceGuard == enabled

KeySpace(res) ==
  /\ KeyPreamble
  /\ QueueRoom
  /\ LogRoom
  /\ selectedIndex' = currentItem
  /\ QueuedFromLoop(SpaceGuard)
  /\ IF SpaceGuard
       THEN /\ selectedIDs' = ToggleContainer(selectedIDs, UnitAt(currentItem))
            /\ Logged("ToggleContainer", UnitAt(currentItem))
            /\ UpdateListSwap(res)
            /\ QueueUpdateDraw(Update("bulkInfo", 0, 0, 0, 0))
       ELSE /\ Logged("SpaceOff", UnitAt(currentItem))
            /\ UNCHANGED <<selectedIDs, containers, uiPc, updates, listErr,
                           uiCalled, locks>>
  /\ UNCHANGED <<currentItem, itemCount, statsText, root, enabled, menuVars,
                 bulkVars, progressText, workerVars, histVars, viewerVars,
                 seed, answered, history,
                 ticks, histUnits, acts, statsViewVars, renderVars>>

\* Backspace: leaves bulk mode (handled before the empty-list check).
KeyBackspace(res) ==
  /\ KeyReady
  /\ LogRoom
  /\ IF enabled
       THEN LET t == Toggle(enabled, selectedIDs)
            IN  /\ enabled' = t.enabled
                /\ selectedIDs' = t.selectedIDs
                /\ Logged("Toggle", NoUnit)
                /\ UpdateListSwap(res)
       ELSE UNCHANGED <<enabled, selectedIDs, containers, uiPc, listErr, selLog,
                        uiCalled, locks>>
  /\ UNCHANGED <<selectedIndex, currentItem, itemCount, statsText, root, updates,
                 idxFault, menuVars, bulkVars, progressText, workerVars,
                 histVars, viewerVars,
                 seed, answered, loop, history,
                 ticks, histUnits, acts, statsViewVars, renderVars>>

\* ShowBulkActionsMenu, lines 181-185: nothing selected, a message and return.
EmptySelectionNoCheck(ids) == FALSE
EmptySelection(ids) == Len(ids) = 0

\* ShowBulkActionsMenu, lines 188-193: names of the listed units that are selected.
SelectedNames(units, ids) ==
  Cardinality({i \in 1..Len(units) : units[i] \in ids})

\* a: in bulk mode, ShowBulkActionsMenu on the current selection.
KeyA ==
  /\ KeyPreamble
  /\ selectedIndex' = currentItem
  /\ Free("bulk")
  /\ locks' = IF enabled THEN Sections(locks, <<"bulk", "mu", "bulk", "bulk">>)
              ELSE Section(locks, "bulk")
  /\ IF enabled
       THEN \E ids \in GetSelected(selectedIDs) :
              IF EmptySelection(ids)
                THEN /\ root' = "message"
                     /\ UNCHANGED <<menuIDs, menuNames>>
                ELSE /\ root' = "menu"
                     /\ menuIDs' = ids
                     /\ menuNames' = SelectedNames(containers, selectedIDs)
       ELSE UNCHANGED <<root, menuIDs, menuNames>>
  /\ UNCHANGED <<containers, currentItem, itemCount, statsText, uiPc, updates,
                 selVars, action, bulkVars, progressText, workerVars, histVars,
                 viewerVars,
                 seed, answered, loop, history, uiCalled, ticks, histUnits,
                 acts, statsViewVars, renderVars, listErr, selLog>>

\* The menu and its confirmation are gone: the ids, names and action their
\* closures captured are unreachable.
MenuClosed == menuIDs' = <<>> /\ menuNames' = 0 /\ action' = "start"

\* showMessage's OK button.
MessageOK ==
  /\ LoopIdle /\ root = "message"
  /\ root' = "main"
  /\ UNCHANGED <<dashVars, updates, idxFault, selVars, menuVars, bulkVars,
                 progressText, workerVars, histVars, viewerVars,
                 seed, answered, loop, history, uiCalled, locks, ticks, histUnits,
                 acts, statsViewVars, renderVars, listErr, selLog>>

\* Menu items 1-4: confirmBulkAction for the chosen action.
MenuPick(a) ==
  /\ LoopIdle /\ root = "menu"
  /\ action' = a
  /\ root' = "confirm"
  /\ Answered("bulk", "none")
  /\ UNCHANGED <<dashVars, updates, idxFault, selVars, menuIDs, menuNames,
                 bulkVars, progressText, workerVars, histVars, viewerVars,
                 seed, loop, history, uiCalled, locks, ticks, histUnits,
                 acts, statsViewVars, renderVars, listErr, selLog>>

\* Menu item q / ESC.
MenuCancel ==
  /\ LoopIdle /\ root = "menu"
  /\ root' = "main"
  /\ MenuClosed
  /\ UNCHANGED <<dashVars, updates, idxFault, selVars, bulkVars,
                 progressText, workerVars, histVars, viewerVars,
                 seed, answered, loop, history, uiCalled, locks, ticks, histUnits,
                 acts, statsViewVars, renderVars, listErr, selLog>>

\* confirmBulkAction's No button.
ConfirmNo ==
  /\ LoopIdle /\ root = "confirm"
  /\ root' = "main"
  /\ Answered("bulk", "no")
  /\ MenuClosed
  /\ UNCHANGED <<dashVars, updates, idxFault, selVars, bulkVars,
                 progressText, workerVars, histVars, viewerVars,
                 seed, loop, history, uiCalled, locks, ticks, histUnits,
                 acts, statsViewVars, renderVars, listErr, selLog>>

\* confirmBulkAction's Yes button: performBulkAction opens the progress view
\* and starts the goroutine (total, success, failed := len(ids), 0, 0).  The
\* model follows one bulk goroutine: Yes is taken when none is running.
ConfirmYes ==
  /\ LoopIdle /\ root = "confirm"
  /\ bulkPc \in {"idle", "gone"}
  /\ root' = "progress"
  /\ Answered("bulk", action)
  /\ progressText' = Update("none", 0, 0, 0, 0)
  /\ containerIDs' = menuIDs
  /\ bulkAction' = action
  /\ total' = Len(menuIDs)
  /\ success' = 0 /\ failed' = 0 /\ bulkI' = 0
  /\ calls' = <<>> /\ progressLog' = <<>>
  /\ bulkPc' = IF Len(menuIDs) = 0 THEN "final" ELSE "issue"
  /\ MenuClosed
  /\ UNCHANGED <<dashVars, updates, idxFault, selVars, inFlight,
                 workerVars, histVars, viewerVars,
                 seed, loop, history, uiCalled, locks, ticks, histUnits,
                 acts, statsViewVars, renderVars, listErr, selLog>>

\* The loop's turn for item i: the progress text is queued with the counts so
\* far, then the runtime call for containerIDs[i] is issued.
BulkMayIssueEager == bulkPc \in {"issue", "wait"}
BulkMayIssue == bulkPc = "issue"

BulkIssue ==
  /\ BulkMayIssue
  /\ QueueUpdateDraw(Update("progress", bulkI + 1, success, failed, total))
  /\ progressLog' = Append(progressLog,
        [i |-> bulkI + 1, s |-> success, f |-> failed])
  /\ calls' = Append(calls, [id |-> containerIDs[bulkI + 1],
                             act |-> bulkAction, ret |-> FALSE, ok |-> FALSE])
  /\ inFlight' = inFlight + 1
  /\ bulkPc' = "wait"
  /\ UNCHANGED <<dashVars, root, idxFault, selVars, menuVars, bulkAction,
                 containerIDs, bulkI, total, success, failed, progressText,
                 workerVars, histVars, viewerVars,
                 seed, answered, loop, history, uiCalled, locks, ticks, histUnits,
                 acts, statsViewVars, renderVars, listErr, selLog>>

\* After the call: where the loop goes next (a failure is counted, not fatal).
NextPcAbortOnError(ok, i) ==
  IF ~ok THEN "final" ELSE IF i < total THEN "issue" ELSE "final"
NextPc(ok, i) == IF i < total THEN "issue" ELSE "final"
\* Lines 348-352: err == nil counts a success, anything else a failure.
TallyDropsFailure(s, f, ok) == [s |-> IF ok THEN s + 1 ELSE s, f |-> f]
Tally(s, f, ok) ==
  [s |-> IF ok THEN s + 1 ELSE s, f |-> IF ok THEN f ELSE f + 1]

\* The runtime call for item i returns and is counted; the loop moves on.
BulkReturn(ok) ==
  /\ bulkPc = "wait"
  /\ inFlight' = inFlight - 1
  /\ calls' = [calls EXCEPT ![Len(calls)].ret = TRUE, ![Len(calls)].ok = ok]
  /\ success' = Tally(success, failed, ok).s
  /\ failed' = Tally(success, failed, ok).f
  /\ bulkI' = bulkI + 1
  /\ bulkPc' = NextPc(ok, bulkI + 1)
  /\ UNCHANGED <<dashVars, root, updates, idxFault, selVars, menuVars,
                 bulkAction, containerIDs, total, progressLog, progressText,
                 workerVars, histVars, viewerVars,
                 seed, answered, loop, history, uiCalled, locks, ticks, histUnits,
                 acts, statsViewVars, renderVars, listErr, selLog>>

\* After the loop: the final summary is queued for the display loop.
BulkFinalClears ==
  /\ bulkPc = "final"
  /\ QueueUpdateDraw(Update("final", bulkI, success, failed, total))
  /\ bulkPc' = "done"
  /\ enabled' = FALSE /\ selectedIDs' = {}
  /\ UNCHANGED <<dashVars, root, idxFault, menuVars, bulkAction,
                 containerIDs, bulkI, total, success, failed, inFlight, calls,
                 progressLog, progressText, workerVars, histVars, viewerVars,
                 seed, answered, loop, history, uiCalled, locks, ticks, histUnits,
                 acts, statsViewVars, renderVars, listErr, selLog>>
BulkFinal ==
  /\ bulkPc = "final"
  /\ QueueUpdateDraw(Update("final", bulkI, success, failed, total))
  /\ bulkPc' = "done"
  /\ UNCHANGED <<dashVars, root, idxFault, selVars, menuVars, bulkAction,
                 containerIDs, bulkI, total, success, failed, inFlight, calls,
                 progressLog, progressText, workerVars, histVars, viewerVars,
                 seed, answered, loop, history, uiCalled, locks, ticks, histUnits,
                 acts, statsViewVars, renderVars, listErr, selLog>>

\* The display loop runs a queued progress text or the final summary (which
\* also installs the any-key handler on the progress view).
DrawProgress ==
  /\ LoopIdle
  /\ updates # <<>>
  /\ Head(updates).kind \in {"progress", "final"}
  /\ updates' = Tail(updates)
  /\ progressText' = Head(updates)
  /\ UNCHANGED <<dashVars, root, idxFault, selVars, menuVars, bulkVars,
                 workerVars, histVars, viewerVars,
                 seed, answered, loop, history, uiCalled, locks, ticks, histUnits,
                 acts, statsViewVars, renderVars, listErr, selLog>>

\* The display loop runs the queued bulk-mode banner (details panel text).
DrawBulkInfo ==
  /\ LoopIdle
  /\ updates # <<>>
  /\ Head(updates).kind = "bulkInfo"
  /\ Free("bulk") /\ locks' = Section(locks, "bulk")
  /\ updates' = Tail(updates)
  /\ UNCHANGED <<dashVars, root, idxFault, selVars, menuVars, bulkVars,
                 progressText, workerVars, histVars, viewerVars,
                 seed, answered, loop, history, uiCalled, ticks, histUnits,
                 acts, statsViewVars, renderVars, listErr, selLog>>

\* The progress view is dropped and the finished goroutine's locals with it.
BulkGone ==
  /\ bulkPc' = "gone" /\ bulkAction' = "start" /\ containerIDs' = <<>>
  /\ bulkI' = 0 /\ total' = 0 /\ success' = 0 /\ failed' = 0
  /\ calls' = <<>> /\ progressLog' = <<>>
  /\ progressText' = Update("none", 0, 0, 0, 0)

\* Any key on the completed progress view: Clear, Toggle, updateList, back
\* to the main view.
DismissKeepMode(e, ids) == [enabled |-> e, selectedIDs |-> {}]
DismissResult(e, ids) == Toggle(e, Clear(ids))

Dismiss(res) ==
  /\ LoopIdle /\ root = "progress"
  /\ progressText.kind = "final"
  /\ LET t == DismissResult(enabled, selectedIDs)
     IN  enabled' = t.enabled /\ selectedIDs' = t.selectedIDs
  /\ UpdateListSwap(res)
  /\ root' = "main"
  /\ BulkGone
  /\ UNCHANGED <<selectedIndex, currentItem, itemCount, statsText, updates,
                 idxFault, menuVars, inFlight, workerVars, histVars,
                 viewerVars,
                 seed, answered, loop, history,
                 ticks, histUnits, acts, statsViewVars, renderVars, selLog>>

\* ------------------------------------------------- single-unit actions
\* s (toggleContainer: stop or start by state), r (restartContainer) and d
\* (deleteContainer).  acts.pending counts the goroutines of each kind whose
\* runtime call has not returned; acts.last is what the latest closure they
\* queued did when the display loop ran it.
ActKinds == {"toggle", "restart", "delete"}
NoActs == [pending |-> [k \in ActKinds |-> 0],
           last |-> [kind |-> "none", ok |-> TRUE, fetched |-> FALSE, shown |-> "none"]]
RECURSIVE Sum(_, _)
Sum(f, S) == IF S = {} THEN 0 ELSE LET x == CHOOSE y \in S : TRUE
                                   IN  f[x] + Sum(f, S \ {x})
ActRoom == Sum(acts.pending, ActKinds) + Len(updates) < MaxActs
Started(k) == acts' = [acts EXCEPT !.pending[k] = @ + 1]

\* s and r: the goroutine is started with the focused unit.
KeyAct(k) ==
  /\ k \in {"toggle", "restart"}
  /\ KeyPreamble
  /\ ActRoom
  /\ selectedIndex' = currentItem
  /\ Started(k)
  /\ UNCHANGED <<containers, currentItem, itemCount, statsText, uiPc, root,
                 updates, selVars, menuVars, bulkVars, progressText, workerVars,
                 histVars, viewerVars,
                 seed, answered, loop, history,
                 listErr, selLog, uiCalled, locks,
                 ticks, histUnits, statsViewVars, renderVars>>

\* d: showConfirmation, nothing is started yet.
KeyD ==
  /\ KeyPreamble
  /\ selectedIndex' = currentItem
  /\ root' = "confirmDelete"
  /\ Answered("delete", "none")
  /\ UNCHANGED <<containers, currentItem, itemCount, statsText, uiPc, updates,
                 selVars, menuVars, bulkVars, progressText, workerVars,
                 histVars, viewerVars,
                 seed, loop, history,
                 listErr, selLog, uiCalled, locks,
                 ticks, histUnits, acts, statsViewVars, renderVars>>

\* showConfirmation, line 349: only the Yes button calls onConfirm.
ConfirmedAlways(yes) == TRUE
Confirmed(yes) == yes

\* showConfirmation's buttons: Yes starts the goroutine that calls
\* RemoveContainer, and both buttons give the screen back to the main view.
DeleteAnswer(yes) ==
  /\ LoopIdle /\ root = "confirmDelete"
  /\ Confirmed(yes) => ActRoom
  /\ IF Confirmed(yes) THEN Started("delete") ELSE UNCHANGED acts
  /\ Answered("delete", IF yes THEN "yes" ELSE "no")
  /\ root' = "main"
  /\ UNCHANGED <<dashVars, updates, idxFault, selVars, menuVars, bulkVars,
                 progressText, workerVars, histVars, viewerVars,
                 seed, loop, history, listErr,
                 selLog, uiCalled, locks, ticks, histUnits, statsViewVars,
                 renderVars>>

\* The runtime call of a goroutine returns and the goroutine queues its
\* closure with the error it got.
ActReturn(k, ok) ==
  /\ acts.pending[k] > 0
  /\ acts' = [acts EXCEPT !.pending[k] = @ - 1]
  /\ QueueUpdateDraw(Update(k, IF ok THEN 1 ELSE 0, 0, 0, 0))
  /\ UNCHANGED <<dashVars, root, idxFault, selVars, menuVars, bulkVars,
                 progressText, workerVars, histVars, viewerVars,
                 seed, answered, loop, history, listErr,
                 selLog, uiCalled, locks, ticks, histUnits, statsViewVars,
                 renderVars>>

\* The closure: `if err != nil { showMessage(Error) } else { updateList() }`,
\* and restart announces its success before it updates the list.
RefetchAlways(ok) == TRUE
Refetch(ok) == ok
Shown(k, ok) == IF ~ok THEN "Error" ELSE IF k = "restart" THEN "Success" ELSE "none"

\* The display loop runs the closure of a single-unit action.
DrawAct(res) ==
  /\ LoopIdle
  /\ updates # <<>>
  /\ Head(updates).kind \in ActKinds
  /\ updates' = Tail(updates)
  /\ LET k == Head(updates).kind
         ok == Head(updates).i = 1
     IN  /\ root' = IF Shown(k, ok) = "none" THEN root ELSE "message"
         /\ IF Refetch(ok)
              THEN UpdateListSwap(res)
              ELSE UNCHANGED <<containers, uiPc, listErr, uiCalled, locks>>
         /\ acts' = [acts EXCEPT !.last = [kind |-> k, ok |-> ok,
                                           fetched |-> Refetch(ok),
                                           shown |-> Shown(k, ok)]]
  /\ UNCHANGED <<selectedIndex, currentItem, itemCount, statsText, idxFault,
                 selVars, menuVars, bulkVars, progressText, workerVars, histVars,
                 viewerVars,
                 seed, answered, loop, history,
                 selLog, ticks, histUnits, statsViewVars,
                 renderVars>>

\* ------------------------------------------------ the real-time stats view
\* showEnhancedStats: a sampler goroutine (lines 337-353) runs updateStats
\* (lines 227-335) and the view's key handler (lines 355-384) runs on the
\* display loop.  They share statsViewer, paused and the accumulators without
\* any synchronisation, so the model interleaves them statement by statement:
\* svCtl.pc is the sampler's position, svCtl.key the position of the r
\* handler, svCtl.cpu and svCtl.mem are updateStats' cpuVal and memVal.
\* The averages are exact fractions num/den; den = 0 is the Inf or NaN that a
\* float division by zero leaves.
Zero == [num |-> 0, den |-> 1]
IsZero(q) == q.num = 0 /\ q.den # 0
NoSamples == [sampleCount |-> 0, avgCPU |-> Zero, avgMem |-> Zero,
              maxCPU |-> 0, maxMem |-> 0]
ViewClosed == [pc |-> "closed", key |-> "idle", paused |-> FALSE, cpu |-> 0, mem |-> 0]

\* Lines 244-245: avg = ((avg * float64(n - 1)) + v) / float64(n)
RunningAvg(avg, n, v) ==
  [num |-> avg.num * (n - 1) + v * avg.den, den |-> avg.den * n]

otherThanView == <<dashVars, idxFault, selVars, menuVars, bulkVars, progressText,
                   workerVars, histVars, seed, answered, loop, history, listErr,
                   selLog, uiCalled, locks, ticks, histUnits, acts, renderVars>>

\* t: showEnhancedStats opens the view over a fresh StatsViewer and starts
\* the sampler.
KeyT ==
  /\ KeyPreamble
  /\ selectedIndex' = currentItem
  /\ root' = "statsView"
  /\ svCpu' = <<>> /\ svMem' = <<>>
  /\ svAcc' = NoSamples
  /\ svCtl' = [ViewClosed EXCEPT !.pc = "start"]
  /\ UNCHANGED <<containers, currentItem, itemCount, statsText, uiPc, updates,
                 selVars, menuVars, bulkVars, progressText, workerVars, histVars,
                 svAppended,
                 seed, answered, loop, history,
                 listErr, selLog, uiCalled, locks, ticks,
                 histUnits, acts, renderVars>>

\* Line 341: the sampler's first updateStats, whatever paused is.
ViewStart ==
  /\ svCtl.pc = "start"
  /\ svCtl' = [svCtl EXCEPT !.pc = "fetch"]
  /\ UNCHANGED <<otherThanView, root, updates, viewerVars, svAcc>>

\* Lines 347-350: a tick calls updateStats unless paused.
TickGuardNoCheck == TRUE
TickGuard == ~svCtl.paused

ViewTick ==
  /\ svCtl.pc = "wait"
  /\ svAppended < MaxSamples
  /\ QueueRoom
  /\ svCtl' = [svCtl EXCEPT !.pc = IF TickGuard THEN "fetch" ELSE "wait"]
  /\ UNCHANGED <<otherThanView, root, updates, viewerVars, svAcc>>

\* Lines 228-238: GetStats returns; an error is queued for display and
\* updateStats returns.
ViewReturn(ok) ==
  /\ svCtl.pc = "fetch"
  /\ IF ok
       THEN /\ svCtl' = [svCtl EXCEPT !.pc = "addCPU",
                                      !.cpu = CpuSample(seed, svAppended + 1),
                                      !.mem = MemSample(seed, svAppended + 1)]
            /\ svAppended' = svAppended + 1
            /\ UNCHANGED updates
       ELSE /\ svCtl' = [svCtl EXCEPT !.pc = "wait"]
            /\ QueueUpdateDraw(Update("viewErr", 0, 0, 0, 0))
            /\ UNCHANGED svAppended
  /\ UNCHANGED <<otherThanView, root, svCpu, svMem, svAcc>>

\* Line 240
ViewAddCPU ==
  /\ svCtl.pc = "addCPU"
  /\ svCpu' = SvAddCPU(svCtl.cpu)
  /\ svCtl' = [svCtl EXCEPT !.pc = "addMem"]
  /\ UNCHANGED <<otherThanView, root, updates, svMem, svAppended, svAcc>>

\* Line 241
ViewAddMem ==
  /\ svCtl.pc = "addMem"
  /\ svMem' = SvAddMem(svCtl.mem)
  /\ svCtl' = [svCtl EXCEPT !.pc = "count"]
  /\ UNCHANGED <<otherThanView, root, updates, svCpu, svAppended, svAcc>>

\* Line 243: sampleCount++
ViewCount ==
  /\ svCtl.pc = "count"
  /\ svAcc' = [svAcc EXCEPT !.sampleCount = @ + 1]
  /\ svCtl' = [svCtl EXCEPT !.pc = "avgCPU"]
  /\ UNCHANGED <<otherThanView, root, updates, viewerVars>>

\* Line 244
ViewAvgCPU ==
  /\ svCtl.pc = "avgCPU"
  /\ svAcc' = [svAcc EXCEPT !.avgCPU = RunningAvg(@, svAcc.sampleCount, svCtl.cpu)]
  /\ svCtl' = [svCtl EXCEPT !.pc = "avgMem"]
  /\ UNCHANGED <<otherThanView, root, updates, viewerVars>>

\* Line 245
ViewAvgMem ==
  /\ svCtl.pc = "avgMem"
  /\ svAcc' = [svAcc EXCEPT !.avgMem = RunningAvg(@, svAcc.sampleCount, svCtl.mem)]
  /\ svCtl' = [svCtl EXCEPT !.pc = "maxCPU"]
  /\ UNCHANGED <<otherThanView, root, updates, viewerVars>>

\* Lines 247-249
ViewMaxCPU ==
  /\ svCtl.pc = "maxCPU"
  /\ svAcc' = [svAcc EXCEPT !.maxCPU = IF svCtl.cpu > @ THEN svCtl.cpu ELSE @]
  /\ svCtl' = [svCtl EXCEPT !.pc = "maxMem"]
  /\ UNCHANGED <<otherThanView, root, updates, viewerVars>>

\* Lines 250-252
ViewMaxMem ==
  /\ svCtl.pc = "maxMem"
  /\ svAcc' = [svAcc EXCEPT !.maxMem = IF svCtl.mem > @ THEN svCtl.mem ELSE @]
  /\ svCtl' = [svCtl EXCEPT !.pc = "render"]
  /\ UNCHANGED <<otherThanView, root, updates, viewerVars>>

\* Lines 254-334: the texts are built from the viewer and the accumulators
\* and queued for display (i: the sample count shown, s: the samples drawn).
ViewRender ==
  /\ svCtl.pc = "render"
  /\ QueueUpdateDraw(Update("view", svAcc.sampleCount, Len(svCpu), 0, 0))
  /\ svCtl' = [svCtl EXCEPT !.pc = "wait"]
  /\ UNCHANGED <<otherThanView, root, viewerVars, svAcc>>

\* The display loop sets the view's texts.
DrawView ==
  /\ LoopIdle /\ svCtl.key = "idle"
  /\ updates # <<>>
  /\ Head(updates).kind \in {"view", "viewErr"}
  /\ updates' = Tail(updates)
  /\ UNCHANGED <<otherThanView, root, viewerVars, statsViewVars>>

ViewKeyReady == LoopIdle /\ root = "statsView" /\ svCtl.key = "idle"

\* r, line 362: avgCPU, avgMem, maxCPU, maxMem = 0, 0, 0, 0
KeyResetAcc ==
  /\ ViewKeyReady
  /\ svAcc' = [NoSamples EXCEPT !.sampleCount = svAcc.sampleCount]
  /\ svCtl' = [svCtl EXCEPT !.key = "r363"]
  /\ UNCHANGED <<otherThanView, root, updates, viewerVars>>

\* r, line 363: sampleCount = 0
KeyResetCount ==
  /\ svCtl.key = "r363"
  /\ svAcc' = [svAcc EXCEPT !.sampleCount = 0]
  /\ svCtl' = [svCtl EXCEPT !.key = "r365"]
  /\ UNCHANGED <<otherThanView, root, updates, viewerVars>>

\* r, line 365: statsViewer = NewStatsViewer()
ResetViewer(buf) == <<>>

KeyResetViewer ==
  /\ svCtl.key = "r365"
  /\ svCpu' = ResetViewer(svCpu) /\ svMem' = ResetViewer(svMem)
  /\ svCtl' = [svCtl EXCEPT !.key = "idle"]
  /\ UNCHANGED <<otherThanView, root, updates, svAppended, svAcc>>

\* p, line 368: paused = !paused
KeyPause ==
  /\ ViewKeyReady
  /\ svCtl' = [svCtl EXCEPT !.paused = ~@]
  /\ UNCHANGED <<otherThanView, root, updates, viewerVars, svAcc>>

\* ----------------------------------------------------- the shell's history
\* CommandHistory of the interactive shell.  history.op, history.arg and
\* history.out are the latest call, its argument and what it returned;
\* history.fault is set once a call has indexed outside commands (Go would
\* panic).
Commands == {"", "ls", "pwd", "whoami"}
NewHistory == [commands |-> <<>>, index |-> 0, op |-> "none", arg |-> "",
               out |-> "", fault |-> FALSE]
otherThanHistory == <<dashVars, root, updates, idxFault, selVars, menuVars, bulkVars,
                      progressText, workerVars, histVars, viewerVars, statsViewVars,
                      renderVars, seed, answered, loop, listErr, selLog, uiCalled,
                      locks, ticks, histUnits, acts>>

\* h.commands[i]
At(cmds, i) == IF i >= 0 /\ i < Len(cmds) THEN cmds[i + 1] ELSE ""
Outside(cmds, i) == ~(i >= 0 /\ i < Len(cmds))

\* Add, lines 19-30: an empty command is ignored, a repeat of the last command
\* only moves the cursor to the end, anything else is appended.
HistoryAdd(cmd) ==
  /\ LET cmds == history.commands
         called == [history EXCEPT !.op = "Add", !.arg = cmd, !.out = ""]
     IN  IF cmd = ""
           THEN history' = called
           ELSE IF Len(cmds) > 0 /\ cmds[Len(cmds)] = cmd
             THEN history' = [called EXCEPT !.index = Len(cmds)]
             ELSE /\ Len(cmds) < MaxCmds
                  /\ history' = [called EXCEPT !.commands = Append(cmds, cmd),
                                               !.index = Len(cmds) + 1]
  /\ UNCHANGED otherThanHistory

\* Previous, line 36: the cursor steps back unless it is on the first command.
MayStepBackAlways(i) == TRUE
MayStepBack(i) == i > 0

\* Previous, lines 32-40
HistoryPrevious ==
  /\ LET cmds == history.commands
         called == [history EXCEPT !.op = "Previous", !.arg = ""]
         i == IF MayStepBack(history.index) THEN history.index - 1
              ELSE history.index
     IN  IF Len(cmds) = 0
           THEN history' = [called EXCEPT !.out = ""]
           ELSE history' = [called EXCEPT !.index = i, !.out = At(cmds, i),
                                          !.fault = @ \/ Outside(cmds, i)]
  /\ UNCHANGED otherThanHistory

\* Next, lines 42-52: one step forward, or past the end with nothing to show.
HistoryNext ==
  /\ LET cmds == history.commands
         called == [history EXCEPT !.op = "Next", !.arg = ""]
         i == history.index + 1
     IN  IF Len(cmds) = 0
           THEN history' = [called EXCEPT !.out = ""]
           ELSE IF history.index < Len(cmds) - 1
             THEN history' = [called EXCEPT !.index = i, !.out = At(cmds, i),
                                            !.fault = @ \/ Outside(cmds, i)]
             ELSE history' = [called EXCEPT !.index = Len(cmds), !.out = ""]
  /\ UNCHANGED otherThanHistory

\* ------------------------------------------------------------ initial state
NoInput == [data |-> <<>>, width |-> 0]
NoAnswer == [on |-> FALSE, delete |-> "none", bulk |-> "none"]
\* QueueUpdateDraw hands the update over and returns.
Returns == [waits |-> FALSE, blocked |-> FALSE]
NotRendered == [miniDone |-> FALSE, mini |-> <<>>, sparkDone |-> FALSE, spark |-> <<>>,
                graphDone |-> FALSE, graph |-> <<>>]
\* NewDashboardUI: the first updateList succeeded (otherwise no dashboard is
\* built), it ran before the changed callback was installed, bulk mode is off.
InitCommon ==
  /\ selectedIndex = 0 /\ currentItem = 0
  /\ itemCount = (IF Len(containers) = 0 THEN 1 ELSE Len(containers))
  /\ statsText = "" /\ uiPc = "idle" /\ root = "main"
  /\ updates = <<>> /\ idxFault = FALSE
  /\ enabled = FALSE /\ selectedIDs = {}
  /\ menuIDs = <<>> /\ menuNames = 0 /\ action = "start"
  /\ bulkAction = "start" /\ bulkPc = "idle" /\ containerIDs = <<>> /\ bulkI = 0
  /\ total = 0 /\ success = 0 /\ failed = 0 /\ inFlight = 0
  /\ calls = <<>> /\ progressLog = <<>>
  /\ progressText = Update("none", 0, 0, 0, 0)
  /\ statsPc = "wait" /\ statsUnit = NoUnit /\ refreshPc = "wait"
  /\ cancelled = FALSE /\ statsSkipped = "no"
  /\ cpuHistory = <<>> /\ memHistory = <<>> /\ svCpu = <<>> /\ svMem = <<>>
  /\ appended = 0 /\ svAppended = 0
  /\ listErr = FALSE
  /\ uiCalled = FALSE /\ locks = {}
  /\ acts = NoActs
  /\ svAcc = NoSamples /\ svCtl = ViewClosed
  /\ renderOut = NotRendered
  /\ history = NewHistory

InitDash ==
  /\ containers \in UnitLists(DashUnits)
  /\ seed = 1
  /\ selLog = [on |-> FALSE, ops |-> <<>>]
  /\ ticks = NoTicks /\ renderIn = NoInput
  /\ histUnits = [on |-> FALSE, units |-> <<>>]
  /\ answered = NoAnswer /\ loop = Returns
  /\ InitCommon

\* ------------------------------------------ the dashboard and its workers
NextDash ==
  \/ \E res \in Listings(DashUnits) : KeyF5(res)
  \/ \E index \in 0..(DashUnits - 1) : KeyNav(index)
  \/ KeyQuit
  \/ ListRebuild
  \/ RefreshTick
  \/ RefreshExit
  \/ \E res \in Listings(DashUnits) : DrawRefresh(res)
  \/ StatsTick
  \/ \E ok \in BOOLEAN : StatsReturn(ok)
  \/ StatsExit
  \/ DrawStats

SpecDash == InitDash /\ [][NextDash]_vars

\* -------------------------------------------- the history buffers alone
\* updateStats, lines 421-422: one sample of each metric is appended.
AppendSample ==
  /\ appended < HistAppends
  /\ cpuHistory' = AddCPU(CpuSample(seed, appended + 1))
  /\ memHistory' = AddMem(MemSample(seed, appended + 1))
  /\ appended' = appended + 1
  /\ histUnits' = Tagged(UnitAt(selectedIndex))
  /\ UNCHANGED <<dashVars, root, updates, idxFault, selVars, menuVars, bulkVars,
                 progressText, workerVars, viewerVars,
                 seed, answered, loop, history, uiCalled, locks, ticks,
                 acts, statsViewVars, renderVars, listErr, selLog>>

\* showEnhancedStats' updateStats, lines 240-241: the same for the viewer.
SvAppendSample ==
  /\ svAppended < ViewAppends
  /\ svCpu' = SvAddCPU(CpuSample(seed, svAppended + 1))
  /\ svMem' = SvAddMem(MemSample(seed, svAppended + 1))
  /\ svAppended' = svAppended + 1
  /\ UNCHANGED <<dashVars, root, updates, idxFault, selVars, menuVars, bulkVars,
                 progressText, workerVars, histVars,
                 seed, answered, loop, history, uiCalled, locks, ticks, histUnits,
                 acts, statsViewVars, renderVars, listErr, selLog>>

InitHist ==
  /\ containers = <<1>>
  /\ seed \in 1..NumSeeds
  /\ selLog = [on |-> FALSE, ops |-> <<>>]
  /\ ticks = NoTicks /\ renderIn = NoInput
  /\ histUnits = [on |-> FALSE, units |-> <<>>]
  /\ answered = NoAnswer /\ loop = Returns
  /\ InitCommon

NextHist ==
  \/ AppendSample
  \/ SvAppendSample

SpecHist == InitHist /\ [][NextHist]_vars

\* ------------------------------ bulk mode, its menu and the bulk executor
InitBulk ==
  /\ containers \in UnitLists(BulkUnits)
  /\ seed = 1
  /\ selLog = [on |-> FALSE, ops |-> <<>>]
  /\ ticks = NoTicks /\ renderIn = NoInput
  /\ histUnits = [on |-> FALSE, units |-> <<>>]
  /\ answered = NoAnswer /\ loop = Returns
  /\ InitCommon

BulkStep ==
  \/ BulkIssue
  \/ \E ok \in BOOLEAN : BulkReturn(ok)
  \/ BulkFinal

NextBulk ==
  \/ \E res \in Listings(BulkUnits) : KeyF5(res)
  \/ \E index \in 0..(BulkUnits - 1) : KeyNav(index)
  \/ \E res \in Listings(BulkUnits) : KeyB(res)
  \/ \E res \in Listings(BulkUnits) : KeySpace(res)
  \/ \E res \in Listings(BulkUnits) : KeyBackspace(res)
  \/ KeyA
  \/ MessageOK
  \/ \E a \in Actions : MenuPick(a)
  \/ MenuCancel
  \/ ConfirmNo
  \/ ConfirmYes
  \/ BulkIssue
  \/ \E ok \in BOOLEAN : BulkReturn(ok)
  \/ BulkFinal
  \/ DrawProgress
  \/ DrawBulkInfo
  \/ \E res \in Listings(BulkUnits) : Dismiss(res)
  \/ ListRebuild
  \/ RefreshTick
  \/ \E res \in Listings(BulkUnits) : DrawRefresh(res)

SpecBulk == InitBulk /\ [][NextBulk]_vars

\* The goroutine is scheduled and every runtime call returns.
SpecBulkFair == SpecBulk /\ WF_vars(BulkStep)

\* ------------------------------- the selection set under the key handlers
\* The keys that reach the selection set (b, SPACE, Backspace), with every
\* call recorded in selLog.
InitSel ==
  /\ containers \in UnitLists(BulkUnits)
  /\ seed = 1
  /\ selLog = [on |-> TRUE, ops |-> <<>>]
  /\ ticks = NoTicks /\ renderIn = NoInput
  /\ histUnits = [on |-> FALSE, units |-> <<>>]
  /\ answered = NoAnswer /\ loop = Returns
  /\ InitCommon

NextSel ==
  \/ \E index \in 0..(BulkUnits - 1) : KeyNav(index)
  \/ \E res \in Listings(BulkUnits) : KeyB(res)
  \/ \E res \in Listings(BulkUnits) : KeySpace(res)
  \/ \E res \in Listings(BulkUnits) : KeyBackspace(res)
  \/ DrawBulkInfo
  \/ ListRebuild

SpecSel == InitSel /\ [][NextSel]_vars

\* ------------------------- a bulk batch beside the stats and refresh workers
\* Bulk mode and the executor together with the two workers, for what one
\* goroutine's runtime call lets the others do.
NextLock ==
  \/ \E res \in Listings(BulkUnits) : KeyB(res)
  \/ \E res \in Listings(BulkUnits) : KeySpace(res)
  \/ KeyA
  \/ \E a \in Actions : MenuPick(a)
  \/ ConfirmYes
  \/ BulkIssue
  \/ \E ok \in BOOLEAN : BulkReturn(ok)
  \/ BulkFinal
  \/ DrawProgress
  \/ DrawBulkInfo
  \/ \E res \in Listings(BulkUnits) : Dismiss(res)
  \/ ListRebuild
  \/ RefreshTick
  \/ \E res \in Listings(BulkUnits) : DrawRefresh(res)
  \/ StatsTick
  \/ \E ok \in BOOLEAN : StatsReturn(ok)
  \/ DrawStats

SpecLock == InitBulk /\ [][NextLock]_vars

\* -------------------------------- one refresh tick beside one stats tick
\* Each worker ticks once; the runtime's answers are fixed beforehand, so that
\* two behaviours differ only in the order of the two workers' steps.
InitOrder ==
  /\ containers \in UnitLists(DashUnits)
  /\ seed = 1
  /\ selLog = [on |-> FALSE, ops |-> <<>>]
  /\ \E res \in Listings(DashUnits), ok \in BOOLEAN :
       ticks = [on |-> TRUE, refresh |-> 0, stats |-> 0,
                res |-> res, ok |-> ok, first |-> containers]
  /\ renderIn = NoInput
  /\ histUnits = [on |-> FALSE, units |-> <<>>]
  /\ answered = NoAnswer /\ loop = Returns
  /\ InitCommon

NextOrder ==
  \/ RefreshTick
  \/ DrawRefresh(ticks.res)
  \/ ListRebuild
  \/ StatsTick
  \/ StatsReturn(ticks.ok)
  \/ DrawStats

SpecOrder == InitOrder /\ [][NextOrder]_vars

\* ------------------------------ the history while the focus moves around
\* The stats worker samples while the user moves the focus; every sample is
\* tagged in histUnits with the unit it was fetched for.
InitFocus ==
  /\ containers \in UnitLists(DashUnits)
  /\ seed = 1
  /\ selLog = [on |-> FALSE, ops |-> <<>>]
  /\ ticks = NoTicks /\ renderIn = NoInput
  /\ histUnits = [on |-> TRUE, units |-> <<>>]
  /\ answered = NoAnswer /\ loop = Returns
  /\ InitCommon

NextFocus ==
  \/ \E index \in 0..(DashUnits - 1) : KeyNav(index)
  \/ StatsTick
  \/ \E ok \in BOOLEAN : StatsReturn(ok)
  \/ DrawStats

SpecFocus == InitFocus /\ [][NextFocus]_vars

\* ------------------------------------------------------ the graph renderers
\* Samples are whole percentages; on those the float computation
\* int((v / max) * 7) of the source equals the integer quotient below.
RenderValues == {0, 10, 50, 90, 100}
Buffers(n) == UNION {[1..k -> RenderValues] : k \in 0..n}

\* Lines 107-115 (76-84 in showStats.go): the largest sample, from 0.0 up.
RECURSIVE MaxOf(_)
MaxOf(data) ==
  IF data = <<>> THEN 0
  ELSE LET m == MaxOf(Tail(data)) IN IF Head(data) > m THEN Head(data) ELSE m
\* A maximum of 0 is replaced by 1 before dividing.
DivisorFixedScale(max) == 100
Divisor(max) == IF max = 0 THEN 1 ELSE max

\* Lines 121-128 (95-102): the index into the 8 blocks, clamped to 0..7.
NumBlocks == 8
Clamp(index) ==
  IF index < 0 THEN 0 ELSE IF index >= NumBlocks THEN NumBlocks - 1 ELSE index
Level(v, max) == Clamp((v * (NumBlocks - 1)) \div Divisor(max))

\* A Go string is a sequence of bytes; the blocks U+2581..U+2588 are the three
\* bytes E2 96 81 .. E2 96 88 in UTF-8.
Block(level) == <<226, 150, 129 + level>>
Repeat(str, count) ==
  IF count <= 0 \/ str = <<>> THEN <<>>
  ELSE [i \in 1..(Len(str) * count) |-> str[((i - 1) % Len(str)) + 1]]
RECURSIVE Blocks(_, _)
Blocks(data, max) ==
  IF data = <<>> THEN <<>>
  ELSE Block(Level(Head(data), max)) \o Blocks(Tail(data), max)

\* createMiniGraph: one block per sample, width is not used.
createMiniGraph(data, width) ==
  IF Len(data) = 0 THEN <<>> ELSE Blocks(data, MaxOf(data))
\* StatsHistory.GetCPUGraph / GetMemGraph
GetGraph(data, width) ==
  IF Len(data) = 0 THEN <<>> ELSE createMiniGraph(data, width)

\* createSparkline: padding, one block per sample, then the last `width`
\* bytes when len(result), a count of bytes, exceeds width.
createSparkline(data, width) ==
  IF Len(data) = 0 THEN Repeat(Block(0), width)
  ELSE LET padding == width - Len(data)
           result == (IF padding > 0 THEN Repeat(Block(0), padding) ELSE <<>>)
                       \o Blocks(data, MaxOf(data))
       IN  IF Len(result) > width
             THEN SubSeq(result, Len(result) - width + 1, Len(result))
             ELSE result

\* What a string shows: one cell per rune, as Go decodes UTF-8.  A block
\* decodes to its level, a byte that begins no valid encoding to the
\* replacement rune (BadRune).
BadRune == -1
RECURSIVE Cells(_)
Cells(str) ==
  IF str = <<>> THEN <<>>
  ELSE IF /\ Len(str) >= 3 /\ str[1] = 226 /\ str[2] = 150
          /\ str[3] \in 129..(128 + NumBlocks)
         THEN <<str[3] - 129>> \o Cells(SubSeq(str, 4, Len(str)))
         ELSE <<BadRune>> \o Cells(Tail(str))

RenderMini ==
  /\ ~renderOut.miniDone
  /\ renderOut' = [renderOut EXCEPT !.miniDone = TRUE,
                     !.mini = GetGraph(renderIn.data, renderIn.width)]
  /\ UNCHANGED <<dashVars, root, updates, idxFault, selVars, menuVars, bulkVars,
                 progressText, workerVars, histVars, viewerVars,
                 seed, answered, loop, history, listErr,
                 selLog, uiCalled, locks, ticks, histUnits, acts, statsViewVars,
                 renderIn>>

RenderSpark ==
  /\ ~renderOut.sparkDone
  /\ renderOut' = [renderOut EXCEPT !.sparkDone = TRUE,
                     !.spark = createSparkline(renderIn.data, renderIn.width)]
  /\ UNCHANGED <<dashVars, root, updates, idxFault, selVars, menuVars, bulkVars,
                 progressText, workerVars, histVars, viewerVars,
                 seed, answered, loop, history, listErr,
                 selLog, uiCalled, locks, ticks, histUnits, acts, statsViewVars,
                 renderIn>>

\* The renderers are handed a buffer of at most `width` samples (the buffers
\* are capped at the widths they are drawn with).
InitRender ==
  /\ containers = <<1>>
  /\ seed = 1
  /\ selLog = [on |-> FALSE, ops |-> <<>>]
  /\ ticks = NoTicks
  /\ histUnits = [on |-> FALSE, units |-> <<>>]
  /\ \E w \in 0..MaxWidth, data \in Buffers(MaxData) :
       /\ Len(data) <= w
       /\ renderIn = [data |-> data, width |-> w]
  /\ answered = NoAnswer /\ loop = Returns
  /\ InitCommon

NextRender ==
  \/ RenderMini
  \/ RenderSpark

SpecRender == InitRender /\ [][NextRender]_vars

\* ------------------------------- single-unit actions beside bulk mode
InitAct ==
  /\ containers \in UnitLists(BulkUnits)
  /\ seed = 1
  /\ selLog = [on |-> FALSE, ops |-> <<>>]
  /\ ticks = NoTicks /\ renderIn = NoInput
  /\ histUnits = [on |-> FALSE, units |-> <<>>]
  /\ answered = NoAnswer /\ loop = Returns
  /\ InitCommon

NextAct ==
  \/ \E index \in 0..(BulkUnits - 1) : KeyNav(index)
  \/ \E k \in ActKinds : KeyAct(k)
  \/ KeyD
  \/ \E yes \in BOOLEAN : DeleteAnswer(yes)
  \/ \E k \in ActKinds, ok \in BOOLEAN : ActReturn(k, ok)
  \/ \E res \in Listings(BulkUnits) : DrawAct(res)
  \/ MessageOK
  \/ ListRebuild
  \/ \E res \in Listings(BulkUnits) : KeyB(res)
  \/ \E res \in Listings(BulkUnits) : KeySpace(res)
  \/ DrawBulkInfo

SpecAct == InitAct /\ [][NextAct]_vars

\* ------------------------------------------------ the real-time stats view
InitView ==
  /\ containers = <<1>>
  /\ seed \in 1..NumSeeds
  /\ selLog = [on |-> FALSE, ops |-> <<>>]
  /\ ticks = NoTicks /\ renderIn = NoInput
  /\ histUnits = [on |-> FALSE, units |-> <<>>]
  /\ answered = NoAnswer /\ loop = Returns
  /\ InitCommon

NextView ==
  \/ KeyT
  \/ ViewStart
  \/ ViewTick
  \/ \E ok \in BOOLEAN : ViewReturn(ok)
  \/ ViewAddCPU
  \/ ViewAddMem
  \/ ViewCount
  \/ ViewAvgCPU
  \/ ViewAvgMem
  \/ ViewMaxCPU
  \/ ViewMaxMem
  \/ ViewRender
  \/ DrawView
  \/ KeyResetAcc
  \/ KeyResetCount
  \/ KeyResetViewer
  \/ KeyPause

SpecView == InitView /\ [][NextView]_vars

\* ------------------------------------------------------ the percentage bar
\* DrawGraph computes in float64.  A positive float64 is a 53-bit significand
\* m (most significant bit first) and the exponent e of its last bit, the
\* value being m * 2^e; results are rounded to nearest, ties to even.  Long
\* digit strings are handled Chunk binary digits at a time.
Significand == 53
Chunk == 16
FracChunks == 5
PlusZero == [m |-> <<>>, e |-> 0]
Bits == Seq({0, 1})

RECURSIVE NatBits(_)
NatBits(n) == IF n = 0 THEN <<>> ELSE Append(NatBits(n \div 2), n % 2)
ChunkBits(d) == [i \in 1..Chunk |-> (d \div 2^(Chunk - i)) % 2]
\* The number written by at most Chunk binary digits.
BitsNat[bits \in Bits] ==
  IF bits = <<>> THEN 0
  ELSE 2 * BitsNat[SubSeq(bits, 1, Len(bits) - 1)] + bits[Len(bits)]
\* bits + 1
Incr(bits) ==
  LET zeros == {i \in 1..Len(bits) : bits[i] = 0}
  IN  IF zeros = {} THEN <<1>> \o [i \in 1..Len(bits) |-> 0]
      ELSE LET k == CHOOSE i \in zeros : \A j \in zeros : j <= i
           IN  [i \in 1..Len(bits) |-> IF i < k THEN bits[i]
                                       ELSE IF i = k THEN 1 ELSE 0]
\* bits without its leading zeros
Strip(bits) ==
  LET ones == {i \in 1..Len(bits) : bits[i] = 1}
  IN  IF ones = {} THEN <<>>
      ELSE SubSeq(bits, CHOOSE i \in ones : \A j \in ones : i <= j, Len(bits))

\* The float64 nearest to bits * 2^e (bits has no leading zero).
Round(bits, e) ==
  IF bits = <<>> THEN PlusZero
  ELSE IF Len(bits) <= Significand
    THEN [m |-> bits \o [i \in 1..(Significand - Len(bits)) |-> 0],
          e |-> e - (Significand - Len(bits))]
    ELSE LET keep == SubSeq(bits, 1, Significand)
             rest == SubSeq(bits, Significand + 1, Len(bits))
             sticky == \E i \in 2..Len(rest) : rest[i] = 1
             up == rest[1] = 1 /\ (sticky \/ keep[Significand] = 1)
             r == IF up THEN Incr(keep) ELSE keep
         IN  IF Len(r) > Significand
               THEN [m |-> SubSeq(r, 1, Significand), e |-> e + Len(rest) + 1]
               ELSE [m |-> r, e |-> e + Len(rest)]

\* The first k * Chunk binary digits of r / den after the point (r < den),
\* and what is left of r.
FracBits[r \in Nat, den \in Nat, k \in Nat] ==
  IF k = 0 THEN [bits |-> <<>>, rem |-> r]
  ELSE LET rest == FracBits[(r * 2^Chunk) % den, den, k - 1]
       IN  [bits |-> ChunkBits((r * 2^Chunk) \div den) \o rest.bits,
            rem |-> rest.rem]

\* float64(num) / float64(den) for naturals that float64 holds exactly: the
\* quotient's digits, a sticky digit for what is left, rounded.
Quotient(num, den) ==
  IF num = 0 THEN PlusZero
  ELSE LET ip == NatBits(num \div den)
           f == FracBits[num % den, den, FracChunks]
           sticky == IF f.rem # 0 THEN 1 ELSE 0
       IN  Round(Strip(ip \o f.bits \o <<sticky>>), -(Len(f.bits) + 1))

\* The digits of limbs * w + carry, the limbs being numbers below 2^Chunk.
MulLimbs[limbs \in Seq(Nat), w \in Nat, carry \in Nat] ==
  IF limbs = <<>> THEN NatBits(carry)
  ELSE LET t == limbs[Len(limbs)] * w + carry
       IN  MulLimbs[SubSeq(limbs, 1, Len(limbs) - 1), w, t \div 2^Chunk]
             \o ChunkBits(t % 2^Chunk)
\* bits cut into limbs of Chunk digits, from the right.
Limbs(bits) ==
  LET n == (Len(bits) + Chunk - 1) \div Chunk
      padded == [i \in 1..(n * Chunk - Len(bits)) |-> 0] \o bits
  IN  [j \in 1..n |-> BitsNat[SubSeq(padded, Chunk * (j - 1) + 1, Chunk * j)]]
MulBits(bits, w) == Strip(MulLimbs[Limbs(bits), w, 0])

\* x * float64(w): the exact product, rounded.
Product(x, w) ==
  IF x.m = <<>> \/ w = 0 THEN PlusZero
  ELSE Round(MulBits(x.m, w), x.e)

\* int(x) for 0 <= x < 2^Chunk: the digits before the point.
Truncate(x) ==
  IF x.m = <<>> \/ Significand + x.e <= 0 THEN 0
  ELSE BitsNat[SubSeq(x.m, 1, Significand + x.e)]

\* DrawGraph, lines 8-13
ClampPercent(value) == IF value < 0 THEN 0 ELSE IF value > 100 THEN 100 ELSE value
\* DrawGraph, line 15: int((value / 100.0) * float64(width))
Filled(value, width) == Truncate(Product(Quotient(value, 100), width))
FullCell == <<226, 150, 136>>
LightCell == <<226, 150, 145>>
\* DrawGraph, lines 7-19
DrawGraph(value, width) ==
  LET filled == Filled(ClampPercent(value), width)
      empty == width - filled
  IN  Repeat(FullCell, filled) \o Repeat(LightCell, empty)

\* One call of DrawGraph on the given value and width.
RenderGraph ==
  /\ ~renderOut.graphDone
  /\ \E value \in {renderIn.value}, width \in {renderIn.width} :
       renderOut' = [renderOut EXCEPT !.graphDone = TRUE,
                                      !.graph = DrawGraph(value, width)]
  /\ UNCHANGED <<dashVars, root, updates, idxFault, selVars, menuVars, bulkVars,
                 progressText, workerVars, histVars, viewerVars, seed, answered,
                 loop, history, listErr, selLog, uiCalled, locks, ticks,
                 histUnits, acts, statsViewVars, renderIn>>

InitGraph ==
  /\ containers = <<1>>
  /\ seed = 1
  /\ selLog = [on |-> FALSE, ops |-> <<>>]
  /\ ticks = NoTicks
  /\ histUnits = [on |-> FALSE, units |-> <<>>]
  /\ answered = NoAnswer /\ loop = Returns
  /\ \E v \in -1..MaxValue, w \in 0..MaxBar :
       renderIn = [data |-> <<>>, width |-> w, value |-> v]
  /\ InitCommon

NextGraph == RenderGraph

SpecGraph == InitGraph /\ [][NextGraph]_vars

\* ------------------------------- single-unit actions beside a bulk run
\* The runtime lists the same units throughout.
Same == [ok |-> TRUE, list |-> containers]

InitMix ==
  /\ containers = [i \in 1..BulkUnits |-> i]
  /\ seed = 1
  /\ selLog = [on |-> FALSE, ops |-> <<>>]
  /\ ticks = NoTicks /\ renderIn = NoInput
  /\ histUnits = [on |-> FALSE, units |-> <<>>]
  /\ answered = [NoAnswer EXCEPT !.on = TRUE] /\ loop = Returns
  /\ InitCommon

NextMix ==
  \/ KeyAct("toggle")
  \/ KeyD
  \/ \E yes \in BOOLEAN : DeleteAnswer(yes)
  \/ \E k \in {"toggle", "delete"}, ok \in BOOLEAN : ActReturn(k, ok)
  \/ DrawAct(Same)
  \/ MessageOK
  \/ ListRebuild
  \/ KeyB(Same)
  \/ KeySpace(Same)
  \/ DrawBulkInfo
  \/ KeyA
  \/ \E a \in {"stop", "delete"} : MenuPick(a)
  \/ MenuCancel
  \/ ConfirmNo
  \/ ConfirmYes
  \/ BulkIssue
  \/ \E ok \in BOOLEAN : BulkReturn(ok)
  \/ BulkFinal
  \/ DrawProgress
  \/ Dismiss(Same)

SpecMix == InitMix /\ [][NextMix]_vars

\* ------------------------------------- key handlers that queue an update
Waits == [waits |-> TRUE, blocked |-> FALSE]

InitLoop ==
  /\ containers \in UnitLists(BulkUnits)
  /\ seed = 1
  /\ selLog = [on |-> FALSE, ops |-> <<>>]
  /\ ticks = NoTicks /\ renderIn = NoInput
  /\ histUnits = [on |-> FALSE, units |-> <<>>]
  /\ answered = NoAnswer /\ loop \in {Returns, Waits}
  /\ InitCommon

NextLoop ==
  \/ \E index \in 0..(BulkUnits - 1) : KeyNav(index)
  \/ \E res \in Listings(BulkUnits) : KeyB(res)
  \/ \E res \in Listings(BulkUnits) : KeySpace(res)
  \/ DrawBulkInfo
  \/ ListRebuild
  \/ StatsTick
  \/ \E ok \in BOOLEAN : StatsReturn(ok)
  \/ DrawStats

SpecLoop == InitLoop /\ [][NextLoop]_vars

\* ---------------------------------------------------- the shell's history
InitShell ==
  /\ containers = <<1>>
  /\ seed = 1
  /\ selLog = [on |-> FALSE, ops |-> <<>>]
  /\ ticks = NoTicks /\ renderIn = NoInput
  /\ histUnits = [on |-> FALSE, units |-> <<>>]
  /\ answered = NoAnswer /\ loop = Returns
  /\ InitCommon

NextShell ==
  \/ \E cmd \in Commands : HistoryAdd(cmd)
  \/ HistoryPrevious
  \/ HistoryNext

SpecShell == InitShell /\ [][NextShell]_vars

\* ======================================================== the properties
Range(f) == {f[i] : i \in DOMAIN f}
FailedCalls == Cardinality({i \in DOMAIN calls : calls[i].ret /\ ~calls[i].ok})
Min(a, b) == IF a < b THEN a ELSE b

\* C1: a bulk run over N ids with K failing calls ends with total = N,
\* succeeded = N - K, failed = K, and every id got exactly one runtime call.
BulkTally ==
  bulkPc = "done" =>
    /\ total = Len(containerIDs)
    /\ failed = FailedCalls
    /\ success = total - FailedCalls
    /\ Len(calls) = total
    /\ \A k \in 1..Len(containerIDs) :
         Cardinality({i \in DOMAIN calls : calls[i].id = containerIDs[k]}) = 1
    /\ \A i \in DOMAIN calls : calls[i].ret /\ calls[i].id \in Range(containerIDs)

BulkTallyWitness ==
  bulkPc = "done" /\ total = 2 /\ failed = 1 /\ success = 1

\* C2: a started bulk run always reaches completion with its final summary,
\* every id attempted, whichever calls fail (every runtime call returns).
BulkCompletes ==
  (bulkPc = "issue" /\ bulkI = 0)
    ~> (bulkPc = "done" /\ Len(calls) = total /\ success + failed = total)

BulkCompletesWitness ==
  /\ bulkPc = "done" /\ total >= 2
  /\ ~calls[1].ok /\ calls[2].ret

\* C3: the batch is sequential: at most one lifecycle call in flight, and a
\* call is issued only after every earlier call of the batch has returned.
BulkSequential ==
  /\ inFlight <= 1
  /\ Cardinality({i \in DOMAIN calls : ~calls[i].ret}) <= 1
  /\ \A i \in DOMAIN calls : i < Len(calls) => calls[i].ret

BulkSequentialWitness ==
  inFlight = 1 /\ Len(calls) = 2 /\ calls[1].ret /\ ~calls[2].ret

EmptySelectionRejected ==
  /\ [][(root = "main" /\ enabled /\ selectedIDs = {} /\ root' # root)
          => (root' = "message" /\ UNCHANGED <<bulkVars, menuVars>>)]_vars
  /\ [](root \in {"menu", "confirm"} => Len(menuIDs) > 0)
  /\ [](bulkPc \in {"issue", "wait", "final", "done"} => total > 0)

EmptySelectionRejectedWitness ==
  root = "message" /\ enabled /\ selectedIDs = {} /\ calls = <<>>

\* C6: no step of the bulk executor (the goroutine's steps and the display of
\* its progress and result) changes the enabled flag or the selected ids.
ExecutorKeepsSelection ==
  [][(BulkStep \/ DrawProgress) => UNCHANGED <<enabled, selectedIDs>>]_vars

ExecutorKeepsSelectionWitness ==
  /\ root = "progress" /\ progressText.kind = "final"
  /\ enabled /\ selectedIDs = Range(containerIDs) /\ selectedIDs # {}

\* C7: dismissing the result of a completed bulk run leaves bulk mode
\* disabled and the selection empty.
DismissLeavesBulkMode ==
  [][(root = "progress" /\ root' # "progress")
       => (~enabled' /\ selectedIDs' = {})]_vars

DismissLeavesBulkModeWitness ==
  bulkPc = "gone" /\ root = "main" /\ ~enabled /\ selectedIDs = {}

\* C8: each history buffer never holds more than its capacity and equals the
\* last min(n, C) samples appended, oldest first.
LastSamples(Sample(_, _), n, cap) ==
  [i \in 1..Min(n, cap) |-> Sample(seed, n - Min(n, cap) + i)]

HistoryIsLastSamples ==
  /\ Len(cpuHistory) <= HistoryCap /\ Len(memHistory) <= HistoryCap
  /\ Len(svCpu) <= ViewerCap /\ Len(svMem) <= ViewerCap
  /\ cpuHistory = LastSamples(CpuSample, appended, HistoryCap)
  /\ memHistory = LastSamples(MemSample, appended, HistoryCap)
  /\ svCpu = LastSamples(CpuSample, svAppended, ViewerCap)
  /\ svMem = LastSamples(MemSample, svAppended, ViewerCap)

HistoryIsLastSamplesWitness ==
  /\ appended > HistoryCap + 1 /\ svAppended > ViewerCap + 1
  /\ Len(cpuHistory) = HistoryCap /\ Len(svMem) = ViewerCap

\* C9 as stated: the refresh re-validates the focus against the new list: in
\* bounds when the list is not empty, a stale focus clamped to the last unit
\* (index 4 becomes index 1 when five units are replaced by two).
FocusReclamped ==
  [][(uiPc = "rebuild" /\ uiPc' = "idle" /\ containers' # <<>>)
       => /\ selectedIndex' >= 0 /\ selectedIndex' < Len(containers')
          /\ selectedIndex >= Len(containers')
               => selectedIndex' = Len(containers') - 1]_vars

\* C10: no key handler and no stats tick indexes the unit list outside
\* 0..len-1, in any interleaving with the refreshes.
NoIndexOutOfRange == ~idxFault

NoIndexOutOfRangeWitness ==
  /\ statsSkipped = "stale" /\ uiPc = "rebuild"
  /\ Len(containers) > 0 /\ selectedIndex >= Len(containers)

\* C11 as stated: once a refresh has made the unit list empty the Live Stats
\* panel is blank, and it stays blank for as long as the list stays empty,
\* whatever the stats worker does meanwhile.
StatsBlankWhileEmpty ==
  (uiPc # "rebuild" /\ Len(containers) = 0) => statsText = ""

\* C12: SetFocus(index) with an index outside the unit list changes neither
\* the focused index nor the unit list; an index inside it becomes the
\* focused index.  The changed callback runs when the widget's current item
\* moves and when the rebuilt widget reports its first row.
SetFocusCalled ==
  currentItem' # currentItem \/ (uiPc = "rebuild" /\ uiPc' = "idle")

SetFocusContract ==
  [][SetFocusCalled =>
       /\ containers' = containers
       /\ IF currentItem' >= 0 /\ currentItem' < Len(containers)
            THEN selectedIndex' = currentItem'
            ELSE selectedIndex' = selectedIndex]_vars

SetFocusContractWitness ==
  /\ uiPc = "idle" /\ Len(containers) = 0
  /\ currentItem = 0 /\ selectedIndex > 0

\* C13 as stated: no reader sees a unit list and a focused index that belong
\* to two different refreshes.  Between the swap of the list and the rebuild
\* of the widget the focused index is still the one validated against the
\* previous list; the stats worker is the reader that runs concurrently.
FocusRevalidated == uiPc # "rebuild"

SnapshotNeverTorn ==
  [][StatsTick => FocusRevalidated]_vars

\* The selection set as the k-th recorded call left it: what the next call
\* found, or the current state after the latest call.
SelAfter(k) ==
  IF k < Len(selLog.ops)
    THEN [enabled |-> selLog.ops[k + 1].en, selectedIDs |-> selLog.ops[k + 1].ids]
    ELSE [enabled |-> enabled, selectedIDs |-> selectedIDs]
SelCalls(op) == {k \in DOMAIN selLog.ops : selLog.ops[k].op = op}

\* C14: every Toggle that takes bulk mode from enabled to disabled leaves the
\* selection empty, and every Toggle that enables it again finds Members()
\* empty, whatever was selected before.
ToggleOffForgets ==
  \A k \in SelCalls("Toggle") :
    IF selLog.ops[k].en
      THEN ~SelAfter(k).enabled /\ SelAfter(k).selectedIDs = {}
      ELSE SelAfter(k).enabled /\ GetSelected(SelAfter(k).selectedIDs) = {<<>>}

ToggleOffForgetsWitness ==
  /\ Len(selLog.ops) = MaxSelOps
  /\ selLog.ops[MaxSelOps - 1].op = "Toggle" /\ selLog.ops[MaxSelOps - 1].en
  /\ Cardinality(selLog.ops[MaxSelOps - 1].ids) = BulkUnits
  /\ selLog.ops[MaxSelOps].op = "Toggle"
  /\ enabled /\ GetSelected(selectedIDs) = {<<>>}

\* C15: two Toggle calls starting from the disabled state end in the disabled
\* state with no ids, whatever ToggleContainer calls come before or between.
TwoTogglesReset ==
  \A i, j \in SelCalls("Toggle") :
    (i < j /\ ~selLog.ops[i].en /\ (\A k \in SelCalls("Toggle") : ~(i < k /\ k < j)))
      => (~SelAfter(j).enabled /\ SelAfter(j).selectedIDs = {})

TwoTogglesResetWitness ==
  /\ Len(selLog.ops) >= 3
  /\ selLog.ops[1].op = "Toggle" /\ ~selLog.ops[1].en
  /\ \A k \in 2..(Len(selLog.ops) - 1) : selLog.ops[k].op = "ToggleContainer"
  /\ selLog.ops[Len(selLog.ops)].op = "Toggle"
  /\ selLog.ops[Len(selLog.ops)].ids # {}
  /\ ~enabled /\ selectedIDs = {}

\* C16: SPACE outside bulk mode calls nothing and leaves the ids as they
\* were, ToggleContainer is only ever called in bulk mode, and whenever bulk
\* mode is off the id set is empty.
MemberToggleNeedsMode ==
  /\ ~enabled => selectedIDs = {}
  /\ \A k \in DOMAIN selLog.ops : ~selLog.ops[k].en => selLog.ops[k].ids = {}
  /\ \A k \in SelCalls("ToggleContainer") : selLog.ops[k].en
  /\ \A k \in SelCalls("SpaceOff") :
       /\ ~selLog.ops[k].en
       /\ SelAfter(k) = [enabled |-> FALSE, selectedIDs |-> selLog.ops[k].ids]

MemberToggleNeedsModeWitness ==
  /\ Len(selLog.ops) >= 2
  /\ selLog.ops[Len(selLog.ops)].op = "SpaceOff"
  /\ selLog.ops[Len(selLog.ops)].id # NoUnit
  /\ SelCalls("ToggleContainer") # {}
  /\ ~enabled /\ selectedIDs = {}

\* C17: in bulk mode ToggleContainer(id) adds an absent id and removes a
\* present one, leaving every other member alone; two calls in a row on the
\* same id restore the set; Count() is the number of distinct ids of
\* Members(), which lists exactly the selected ids.
MemberToggleFlips ==
  /\ \A k \in SelCalls("ToggleContainer") :
       LET before == selLog.ops[k].ids
           id == selLog.ops[k].id
           after == SelAfter(k).selectedIDs
       IN  /\ (id \in after) = (id \notin before)
           /\ after \ {id} = before \ {id}
           /\ (k + 1 \in SelCalls("ToggleContainer") /\ selLog.ops[k + 1].id = id)
                 => SelAfter(k + 1).selectedIDs = before
  /\ \A m \in GetSelected(selectedIDs) :
       /\ Cardinality(Range(m)) = Count(selectedIDs)
       /\ Range(m) = selectedIDs

MemberToggleFlipsWitness ==
  /\ Len(selLog.ops) >= 2
  /\ LET last == selLog.ops[Len(selLog.ops)]
     IN  /\ last.op = "ToggleContainer"
         /\ last.id \in last.ids
         /\ Cardinality(last.ids) = BulkUnits
         /\ selectedIDs = last.ids \ {last.id}
         /\ selectedIDs # {}
  /\ Count(selectedIDs) = BulkUnits - 1

\* C18: a queued refresh whose ListContainers fails changes neither the unit
\* list nor the focused index (nor the list widget or the stats panel), the
\* refresh worker stays in its loop, and it leaves the loop only when
\* cancelled.
RefreshFailed ==
  /\ updates # <<>> /\ Head(updates).kind = "refresh"
  /\ updates' = Tail(updates)
  /\ listErr'

FailedRefreshSkipped ==
  /\ [][RefreshFailed =>
          /\ UNCHANGED <<containers, selectedIndex, currentItem, itemCount, statsText>>
          /\ uiPc' = "idle"
          /\ refreshPc' = refreshPc]_vars
  /\ [](refreshPc = "exit" => cancelled)

FailedRefreshSkippedWitness ==
  /\ listErr /\ uiPc = "idle"
  /\ Len(containers) >= 2 /\ selectedIndex = Len(containers) - 1
  /\ refreshPc = "wait" /\ ~cancelled
  /\ updates # <<>> /\ Head(updates).kind = "refresh"

\* C19: a stats tick whose GetStats fails appends nothing to either history
\* buffer, the stats worker goes back to waiting for its next tick, and it
\* leaves the loop only when cancelled.
StatsFailed ==
  /\ statsPc = "fetch" /\ statsPc' = "wait"
  /\ updates' # <<>> /\ updates'[Len(updates')].kind = "statsErr"

FailedStatsSkipped ==
  /\ [][StatsFailed => UNCHANGED <<cpuHistory, memHistory, appended>>]_vars
  /\ [](statsPc = "exit" => cancelled)

FailedStatsSkippedWitness ==
  /\ statsText = "unavailable"
  /\ appended = 1 /\ Len(cpuHistory) = 1 /\ Len(memHistory) = 1
  /\ statsPc = "fetch" /\ ~cancelled

\* C20 as stated: once cleanup has cancelled the workers, no GetStats call
\* and no ListContainers call is started.
NoCallAfterCancel ==
  [][cancelled =>
       /\ ~(statsPc = "wait" /\ statsPc' = "fetch")
       /\ UNCHANGED <<containers, listErr>>]_vars

\* C21: once cleanup() has cancelled the workers, no step appends a sample to
\* the metrics history or writes the unit list or the Live Stats panel: the
\* result of a GetStats that was in flight is thrown away.
ResultDiscardedAfterCancel ==
  [][cancelled => UNCHANGED <<cpuHistory, memHistory, containers, statsText>>]_vars

\* C22: the display loop never executes a runtime call itself: ListContainers
\* and every other runtime call runs in a background goroutine.
DisplayLoopNeverCalls == ~uiCalled

\* C23: while a runtime call is in flight (GetStats of the stats worker or a
\* lifecycle call of the bulk batch) no lock is held, so the dashboard lock,
\* the selection lock and the history lock can be acquired by a stats tick, a
\* refresh or a redraw.
RuntimeCallInFlight == statsPc = "fetch" \/ inFlight > 0
NoLockAcrossRuntimeCall ==
  RuntimeCallInFlight => Free("mu") /\ Free("bulk") /\ Free("hist")
\* A batch call and a GetStats are in flight together and the display loop has
\* meanwhile taken the dashboard lock to swap in a refreshed list.
NoLockAcrossRuntimeCallWitness ==
  /\ inFlight > 0 /\ statsPc = "fetch"
  /\ uiPc = "rebuild" /\ bulkPc = "wait"
  /\ locks = {}

\* Both ticks have been taken and everything they started has finished.
OrderDone ==
  /\ ticks.on /\ ticks.refresh = TicksEach /\ ticks.stats = TicksEach
  /\ updates = <<>> /\ statsPc = "wait" /\ uiPc = "idle"
\* The list the refresh leaves behind, and the history the stats tick leaves
\* behind when it runs before the refresh.
RefreshedList == IF ticks.res.ok THEN ticks.res.list ELSE ticks.first
OneSample(Sample(_, _)) == <<Sample(seed, 1)>>
StatsFirstCpu == IF ticks.first # <<>> /\ ticks.ok THEN OneSample(CpuSample) ELSE <<>>
StatsFirstMem == IF ticks.first # <<>> /\ ticks.ok THEN OneSample(MemSample) ELSE <<>>
StatsStep == StatsTick \/ \E ok \in BOOLEAN : StatsReturn(ok)
RefreshStep ==
  \/ RefreshTick
  \/ \E res \in Listings(DashUnits) : DrawRefresh(res)
  \/ ListRebuild

\* C24 as stated: one refresh tick and one stats tick leave the same unit
\* list, focus and history whichever completes first, namely what they leave
\* when the stats tick runs first.
TickOrderIrrelevant ==
  OrderDone => /\ containers = RefreshedList
               /\ selectedIndex = 0
               /\ cpuHistory = StatsFirstCpu
               /\ memHistory = StatsFirstMem

\* C24, amended: a stats step never changes the unit list or the focused
\* index, a refresh step never changes the history buffers, and after one
\* tick of each the list is the refreshed one, the focus is unchanged, and
\* the history holds the sample exactly when the stats tick found a focused
\* unit at the moment it ran and GetStats succeeded.
WorkersWriteDisjointState ==
  [][/\ StatsStep => UNCHANGED <<containers, selectedIndex>>
     /\ RefreshStep => UNCHANGED <<cpuHistory, memHistory>>
     /\ OrderDone' =>
          /\ containers' = RefreshedList
          /\ selectedIndex' = 0
          /\ cpuHistory' = (IF statsSkipped' = "no" /\ ticks.ok
                              THEN OneSample(CpuSample) ELSE <<>>)
          /\ memHistory' = (IF statsSkipped' = "no" /\ ticks.ok
                              THEN OneSample(MemSample) ELSE <<>>)]_vars
\* The list was empty at first, the refresh brought units and completed
\* before the stats tick, which then found a unit to sample.
WorkersWriteDisjointStateWitness ==
  /\ OrderDone
  /\ ticks.first = <<>> /\ containers # <<>>
  /\ cpuHistory = OneSample(CpuSample)

\* The display loop draws the history graphs into the Live Stats panel.
GraphsDrawn == DrawStats /\ Head(updates).kind = "stats" /\ ~enabled

\* C25: whenever the history graphs are drawn for a unit, every sample of the
\* history was fetched for that unit: nothing is carried over from a unit that
\* was focused before.
HistoryOfOneUnit ==
  [][GraphsDrawn => \A k \in DOMAIN histUnits.units :
                      histUnits.units[k] = Head(updates).i]_vars

\* The encoding the renderers are meant to return: width cells, baseline on
\* the left, then one cell per sample, oldest first.
Baseline(w) == [i \in 1..w |-> 0]
Padded(data, w) ==
  [i \in 1..w |-> IF i <= w - Len(data) THEN 0
                  ELSE Level(data[i - (w - Len(data))], MaxOf(data))]

\* C27: a buffer of n samples, 0 < n <= w, is drawn as exactly w cells: w - n
\* baseline cells, then one cell per sample in insertion order.
RenderedAtWidth ==
  renderIn.data # <<>> =>
    /\ renderOut.sparkDone =>
         Cells(renderOut.spark) = Padded(renderIn.data, renderIn.width)
    /\ renderOut.miniDone =>
         Cells(renderOut.mini) = Padded(renderIn.data, renderIn.width)

\* C28: an empty buffer is drawn as a flat baseline of exactly the requested
\* width, by the dashboard's history graphs and by the sparkline.
EmptyRendersBaseline ==
  renderIn.data = <<>> =>
    /\ renderOut.sparkDone => Cells(renderOut.spark) = Baseline(renderIn.width)
    /\ renderOut.miniDone => Cells(renderOut.mini) = Baseline(renderIn.width)

\* The last cells of the sparkline, as many as there are samples and whole
\* blocks in it.
SparkTail(k) ==
  LET c == Cells(renderOut.spark) IN c[Len(c) - k + 1]
SparkSamples ==
  LET n == Len(renderIn.data)
      b == Len(renderOut.spark) \div 3
  IN  IF n < b THEN n ELSE b

\* C29: every sample is drawn at one of the 8 levels 0..7, a larger sample
\* never below a smaller one, a sample equal to a positive maximum at level 7,
\* and every sample at level 0 when the maximum is 0; the sparkline draws the
\* samples it keeps at the same levels.
NormalisedLevels ==
  LET data == renderIn.data
      n == Len(data)
      max == MaxOf(data)
      c == Cells(renderOut.mini)
  IN  /\ renderOut.miniDone /\ n > 0 =>
           /\ Len(c) = n
           /\ \A i \in 1..n : c[i] \in 0..7
           /\ \A i, j \in 1..n : data[i] <= data[j] => c[i] <= c[j]
           /\ \A i \in 1..n : max > 0 /\ data[i] = max => c[i] = 7
           /\ max = 0 => \A i \in 1..n : c[i] = 0
      /\ renderOut.sparkDone /\ renderOut.miniDone /\ n > 0 =>
           \A k \in 1..SparkSamples : SparkTail(k) = c[n - k + 1]
\* The scenario of the samples 10, 90, 50: 90 is at the peak.
NormalisedLevelsWitness ==
  /\ renderIn.data = <<10, 90, 50>>
  /\ renderOut.miniDone /\ renderOut.sparkDone
  /\ Cells(renderOut.mini) = <<0, 7, 3>>

\* The display loop runs the closure of a single-unit action that failed.
FailedActDrawn ==
  /\ updates # <<>> /\ Head(updates).kind \in ActKinds /\ Head(updates).i = 0
  /\ \E res \in Listings(BulkUnits) : DrawAct(res)

\* C30: when a start/stop, restart or delete fails at the runtime, its closure
\* shows the error as a message and leaves the unit list, the focused index,
\* the selection set and the metrics history as they were, without fetching
\* the list; a closure fetches the list only when its action succeeded.
FailedActLeavesState ==
  [][/\ FailedActDrawn =>
          /\ root' = "message"
          /\ acts'.last.shown = "Error" /\ ~acts'.last.fetched
          /\ UNCHANGED <<containers, selectedIndex, currentItem, selVars,
                         histVars, uiPc, listErr>>
     /\ acts'.last.fetched => acts'.last.ok]_vars
\* A delete failed at the runtime: its
\* message is up over a list and a selection that are still there.
FailedActLeavesStateWitness ==
  /\ acts.last.kind = "delete" /\ ~acts.last.ok
  /\ root = "message"
  /\ enabled /\ selectedIDs # {} /\ Len(containers) = BulkUnits
  /\ selectedIndex = 1

\* Both buffers of the stats view are empty and every accumulator is zero.
ViewCleared ==
  /\ svCpu = <<>> /\ svMem = <<>>
  /\ svAcc.sampleCount = 0
  /\ IsZero(svAcc.avgCPU) /\ IsZero(svAcc.avgMem)
  /\ svAcc.maxCPU = 0 /\ svAcc.maxMem = 0

\* C26: immediately after a reset (the r handler has run to its end) the CPU
\* and memory buffers are empty and the sample count, the running averages
\* and the maxima are all zero.
ResetClearsAll == [][KeyResetViewer => ViewCleared']_vars

\* ---------------------------------------------------------------------
\* C39 (as amended): after any sequence of Add, Previous and Next the cursor
\* is between 0 and len(commands), no call has indexed outside the commands,
\* no stored command is empty or equal to the one stored before it, and an
\* Add of a non-empty command leaves the cursor at len(commands).
NoRepeats(cmds) ==
  /\ \A i \in 1..Len(cmds) : cmds[i] # ""
  /\ \A i \in 1..(Len(cmds) - 1) : cmds[i] # cmds[i + 1]
CursorInRange ==
  /\ history.index >= 0 /\ history.index <= Len(history.commands)
  /\ ~history.fault
  /\ NoRepeats(history.commands)
CursorAfterAdd ==
  /\ CursorInRange
  /\ (history.op = "Add" /\ history.arg # "")
       => history.index = Len(history.commands)
\* A non-empty command was added to a history that now holds two commands.
CursorAfterAddWitness ==
  /\ history.op = "Add" /\ history.arg # ""
  /\ Len(history.commands) = 2
  /\ history.index = 2
\* C39 as stated: every Add, the ignored Add of an empty command included,
\* leaves the cursor at len(commands).
CursorAfterEveryAdd ==
  /\ CursorInRange
  /\ history.op = "Add" => history.index = Len(history.commands)

\* ---------------------------------------------------------------------
\* C38: for width >= 0 the bar DrawGraph(value, width) has exactly width
\* cells, of which the first floor(clamped * width / 100) are filled and the
\* rest empty, clamped being the value brought into [0, 100].
\* The runes of a string of three-byte UTF-8 sequences.
Runes(str) ==
  [i \in 1..((Len(str) + 2) \div 3) |->
     IF 3 * i <= Len(str)
       THEN (str[3 * i - 2] - 224) * 4096 + (str[3 * i - 1] - 128) * 64
              + (str[3 * i] - 128)
       ELSE BadRune]
FullRune == 9608
LightRune == 9617
BarIsExactFloor ==
  renderOut.graphDone =>
    LET bar == Runes(renderOut.graph)
        n == (ClampPercent(renderIn.value) * renderIn.width) \div 100
    IN  /\ Len(bar) = renderIn.width
        /\ \A i \in 1..Len(bar) : bar[i] = IF i <= n THEN FullRune ELSE LightRune
\* Whatever the value, the bar has width cells: filled ones, then empty ones.
BarHasWidthCells ==
  renderOut.graphDone =>
    LET bar == Runes(renderOut.graph)
    IN  /\ Len(bar) = renderIn.width
        /\ \E n \in 0..Len(bar) :
             \A i \in 1..Len(bar) : bar[i] = IF i <= n THEN FullRune ELSE LightRune

\* ---------------------------------------------------------------------
\* C37: a tick of the stats view's sampler that fires while the view is
\* paused starts no GetStats call and changes neither buffer, nor the sample
\* count, the averages or the maxima; a tick that fires once the pause is off
\* starts a GetStats call again.
PausedTickSamplesNothing ==
  [][/\ (svCtl.pc = "wait" /\ svCtl.paused) => svCtl'.pc = "wait"
     /\ (ViewTick /\ svCtl.paused) => UNCHANGED <<viewerVars, svAcc, updates>>
     /\ (ViewTick /\ ~svCtl.paused) => svCtl'.pc = "fetch"]_vars
\* The view was paused after its first sample and the sampler's next tick is
\* due.
PausedTickSamplesNothingWitness ==
  /\ root = "statsView"
  /\ svCtl.paused /\ svCtl.pc = "wait" /\ svCtl.key = "idle"
  /\ svAppended >= 1 /\ svAppended < MaxSamples /\ QueueRoom

\* ---------------------------------------------------------------------
\* C34: a reset of the stats view is atomic with respect to a sampler tick:
\* no average is ever computed with a sample count of 0 (which leaves Inf or
\* NaN), and whenever neither the sampler nor the r handler is at work the
\* samples counted by the accumulators are the samples held by the buffers.
ResetIsAtomic ==
  /\ svCtl.pc \in {"avgCPU", "avgMem"} => svAcc.sampleCount # 0
  /\ svAcc.avgCPU.den # 0 /\ svAcc.avgMem.den # 0
  /\ (svCtl.pc = "wait" /\ svCtl.key = "idle")
       => /\ svAcc.sampleCount = Len(svCpu)
          /\ svAcc.sampleCount = Len(svMem)

\* ---------------------------------------------------------------------
\* C32: after any sequence of member toggles and refreshes every selected id
\* is the id of a listed unit, so the bulk confirmation shows as many unit
\* names as the batch has ids to act on.
Listed == {containers[i] : i \in 1..Len(containers)}
SelectionIsListed ==
  /\ selectedIDs \subseteq Listed
  /\ root \in {"menu", "confirm"} => menuNames = Len(menuIDs)

\* ---------------------------------------------------------------------
\* C35: no code path takes a lock while it holds the dashboard lock, the
\* selection lock or the history lock, and none keeps a lock beyond its own
\* critical section, so nobody ever waits for one lock while holding another.
NoNestedLocking == Nested \notin locks /\ locks = {}
\* The display loop is between updateList's swap of the list (under d.mu) and
\* the rebuild of the rows (which asks the selection), a unit is selected and
\* the stats worker has appended to the history.
NoNestedLockingWitness ==
  /\ uiPc = "rebuild" /\ selectedIDs # {} /\ appended >= 1

\* ---------------------------------------------------------------------
\* C31: a Remove call for a single unit is started only by the Yes button of
\* the delete confirmation, a bulk run only by the Yes button of the bulk
\* confirmation and for the action that dialog was opened for, and lifecycle
\* calls of a batch are issued only by such a run; the No button of either
\* dialog starts no runtime call and leaves the selection and bulk mode alone.
DeleteStarted == acts'.pending["delete"] > acts.pending["delete"]
BulkStarted == bulkPc \in {"idle", "gone"} /\ bulkPc' \notin {"idle", "gone"}
BulkCalled == Len(calls') > Len(calls)
SaidNo ==
  \/ answered'.delete = "no" /\ answered.delete # "no"
  \/ answered'.bulk = "no" /\ answered.bulk # "no"
OnlyYesActs ==
  [][/\ DeleteStarted => root = "confirmDelete" /\ answered'.delete = "yes"
     /\ BulkStarted => /\ root = "confirm"
                       /\ answered'.bulk = action /\ bulkAction' = action
     /\ BulkCalled => /\ bulkPc = "issue"
                      /\ calls'[Len(calls')].act = bulkAction
     /\ SaidNo => /\ UNCHANGED <<selVars, bulkVars, updates>>
                  /\ acts'.pending = acts.pending]_vars
\* The bulk confirmation was answered No and the selection is still there;
\* then the delete confirmation was answered Yes and its Remove call is in
\* flight.
OnlyYesActsWitness ==
  /\ answered.bulk = "no" /\ enabled /\ selectedIDs # {}
  /\ answered.delete = "yes" /\ acts.pending["delete"] = 1

\* ---------------------------------------------------------------------
\* C33: from the confirmation of a bulk action until its result is dismissed
\* no key changes the selection or bulk mode and no second bulk action can
\* be chosen or confirmed.
BulkRunActive == bulkPc \in {"issue", "wait", "final", "done"}
OneBulkRunAtATime ==
  [][BulkRunActive => /\ (UNCHANGED selVars \/ bulkPc' = "gone")
                      /\ root' \notin {"menu", "confirm"}]_vars

\* C36: every key handler returns control to the display loop; the handlers
\* of b (entering bulk mode) and SPACE (selecting a unit), which call
\* QueueUpdateDraw on the display loop itself, never wait for an update that
\* only the display loop can run.
HandlersReturn == ~loop.blocked

====
